---- MODULE Spec2Model ----
(***************************************************************************)
(* Loop Relay (src/app/page.tsx): the session synchronisation core of the  *)
(* collaborative loop builder. Every peer runs HomeContent; the peers      *)
(* share one SessionState through the relay channel ("state" messages,     *)
(* presence, history of the last message).                                 *)
(*                                                                         *)
(* Spec       the session: peers mount, enter presence, fetch presence     *)
(*            snapshots and history, receive state messages, run the       *)
(*            bootstrap and leader arbitration effects, pass the turn,     *)
(*            toggle playback, change the window, leave.                   *)
(* SpecApply  one peer's "state" subscription handler fed with any         *)
(*            sequence of updates drawn from a bounded set.                *)
(* SpecTurn   three peers in a running session: leaves, presence           *)
(*            snapshots, deliveries, passes, tempo changes and long waits; *)
(*            the leader arbitration effect rotates the turn.              *)
(* SpecCommit two peers in a running session: draft edits, commitDraft,    *)
(*            passes and deliveries.                                       *)
(* SpecWindow compositionWindowMs over every tempo and window setting.     *)
(* SpecTempo  two peers in a running session: bpmInput and cycleInput with *)
(*            values inside and outside their ranges, early and late in    *)
(*            the turn.                                                    *)
(* SpecRelay  two peers in a running session while the relay rejects       *)
(*            publishes and takes them again.                              *)
(* SpecSetup  setup() step by step, with the effect's cleanup running at   *)
(*            any of its awaits.                                           *)
(* SpecLate   a newcomer that gets the turn before its first presence      *)
(*            snapshot, and commits.                                       *)
(* SpecQueue  three peers, two of them entered in the same millisecond:    *)
(*            leaves and presence snapshots.                               *)
(* SpecScale  the holder of the turn draws keys notes, changes the root of *)
(*            the scale and commits.                                       *)
(* SpecSync   syncTransportToSession on peers whose clocks differ.         *)
(* SpecCycle  three peers and a fixed queue: passes, tempo changes, waits. *)
(* SpecKeep   two peers: a commit among passes, playback toggles, tempo    *)
(*            and window changes, with short and long waits.               *)
(* SpecPass   the Pass button between the "state" handler and the next     *)
(*            render.                                                      *)
(*                                                                         *)
(* Participant name/colour, the synths and the rest of the UI state are     *)
(* left out: no modelled condition reads them.                             *)
(***************************************************************************)
EXTENDS Integers, Sequences, FiniteSets, TLC

\* ------------------------------------------------------------ bounds
MaxTicks == 1       \* number of clock advances in a behaviour
MaxPublish == 2     \* number of "state" messages published in a behaviour
MaxVersion == 3     \* versions of the updates fed to the handler in SpecApply
MaxElapse == 1      \* SpecTurn: number of long waits in a behaviour
MaxTurnPublish == 2 \* SpecTurn: number of "state" messages published in a behaviour
MaxDrumRows == 1    \* SpecCommit: rows of the drum grid the behaviours edit

\* ------------------------------------------------------------ program constants
STEP_COUNT == 16
DefaultBpm == 120
DefaultWindowCycles == 4

Peers == {"p1", "p2"}
RefPeer == "p1"         \* clocks are relative: this peer's clock is the reference
ClockSkews == {0, 1}    \* ms another peer's Date.now() is ahead of the reference
TurnPeers == <<"p1", "p2", "p3">>   \* SpecTurn: the peers, in the order they entered
\* README: "Loop replacement (max 2 per instrument)"
README_LOOP_LIMIT == 2
DRUM_LOOP_LIMIT == 4
MELODIC_LOOP_LIMIT == 2
Instruments == {"drums", "keys", "bass"}
DraftInstruments == {"drums", "keys"}   \* the instruments selected (bass goes the way of keys)
DRUM_ROWS == <<"kick", "snare", "hat", "clap">>
SCALE_NOTES == <<"C4">>  \* the pitches the piano rolls offer
MIN_BPM == 60           \* clampBpm
MAX_BPM == 180          \* clampBpm
EXTEND_MS == 1500       \* bpmInput / cycleInput: Date.now() + 1500
TURN_POLL_MS == 400     \* the turnRemaining interval
BpmValues == {240}      \* the values typed into the tempo input
CycleValues == {2}      \* the values handed to cycleInput
NoId == "null"          \* creatorId: null, activeTurn: null (userId)
NullTime == -1          \* playbackStartedAt: null

\* ------------------------------------------------------------ data
NoTurn == [userId |-> NoId, startedAt |-> 0, endsAt |-> 0]

Turn(userId, startedAt, endsAt) ==
  [userId |-> userId, startedAt |-> startedAt, endsAt |-> endsAt]

\* useState<SessionState>({...}): the state every peer starts from
InitialSessionState ==
  [bpm |-> DefaultBpm, loops |-> <<>>, activeTurn |-> NoTurn, version |-> 0,
   creatorId |-> NoId, windowCycles |-> DefaultWindowCycles,
   playbackStartedAt |-> NullTime]

\* Math.floor(x / y) for x >= 0, y > 0
FloorDiv(x, y) == x \div y

\* Math.round(x / y) for x >= 0, y > 0
RoundDiv(x, y) == (2 * x + y) \div (2 * y)

\* compositionWindowMs: Math.round((60 / bpm) * STEP_COUNT * windowCycles * 1000)
CompositionWindowMs(s) == RoundDiv(60 * STEP_COUNT * s.windowCycles * 1000, s.bpm)

\* ------------------------------------------------------------ queue
RECURSIVE InsertByJoinedAt(_, _)
\* one step of the stable sort: x goes after every element with joinedAt <= x.joinedAt
InsertByJoinedAt(sorted, x) ==
  IF sorted = <<>> THEN <<x>>
  ELSE IF Head(sorted).joinedAt <= x.joinedAt
       THEN <<Head(sorted)>> \o InsertByJoinedAt(Tail(sorted), x)
       ELSE <<x>> \o sorted

RECURSIVE SortFrom(_, _)
SortFrom(sorted, rest) ==
  IF rest = <<>> THEN sorted
  ELSE SortFrom(InsertByJoinedAt(sorted, Head(rest)), Tail(rest))

\* [...members].sort((a, b) => a.joinedAt - b.joinedAt): Array.prototype.sort is
\* stable, so members with equal joinedAt keep the order of the input
queueFromPresence(members) == SortFrom(<<>>, members)

QueueIds(queue) == [i \in 1..Len(queue) |-> queue[i].id]

\* ------------------------------------------------------------ reconciler
\* the handler's condition: !sessionStateRef.current.version || incoming.version >= version
Adopts(local, incoming) ==
  local.version = 0 \/ incoming.version >= local.version

\* the handler adopts whatever arrives
OnStateMessageNoCheck(local, incoming) == incoming

\* the handler adopts only a strictly newer version
OnStateMessageStrict(local, incoming) ==
  IF local.version = 0 \/ incoming.version > local.version THEN incoming ELSE local

\* the handler merges the loop lists instead of replacing the aggregate
OnStateMessageMerge(local, incoming) ==
  IF Adopts(local, incoming)
  THEN [incoming EXCEPT !.loops = local.loops \o incoming.loops]
  ELSE local

\* channel.subscribe("state", ...): the local state after the handler ran
OnStateMessage(local, incoming) ==
  IF Adopts(local, incoming) THEN incoming ELSE local

\* ------------------------------------------------------------ session state
VARIABLES
  now,              \* the reference clock (ms)
  ticks,            \* clock advances so far
  skew,             \* skew[p]: how far p's Date.now() runs ahead of the reference
  pc,               \* "init" | "joined" (history pending) | "ready" | "left";
                    \* SpecSetup follows setup() through more stages
  joinedAt,         \* identity.joinedAt of each peer
  presence,         \* the relay's presence set
  presencePending,  \* an updatePresence() call of the peer awaits presence.get()
  participants,     \* useState<Participant[]>: the peer's last presence snapshot
  state,            \* sessionState / sessionStateRef.current of each peer
  stateLoaded,      \* useState(false): stateLoaded
  observed,         \* the peer has adopted a state from a delivery or from history
  msgs,             \* the channel's "state" messages, oldest first
  dropped,          \* the updates whose publish was rejected, oldest first
  relayUp,          \* channel.publish resolves (TRUE) or rejects (FALSE)
  transport,        \* Tone.Transport and transportStarted.current of the peer
  isMyTurn,         \* isMyTurn of the peer's last render (sessionState, not the ref)
  subFrom,          \* Len(msgs) when the peer subscribed
  publishLimit,     \* the behaviour ends its publishes at this many messages
  rLocal,           \* SpecApply: the handler's local state
  rDelivered,       \* SpecApply: the updates delivered so far
  rLast,            \* SpecApply: the last delivery
  draftInstrument,  \* useState<Instrument>("drums"): the instrument of the peer's draft
  drums,            \* useState(createEmptyDrums()): the rows of the drum grid with a step on
  pianoDrafts,      \* useState({keys: [], bass: []}): the pitches of the melodic drafts
  lastCommit,       \* the last call of commitDraft: who, on what, and whether it published
  rootNote,         \* useState("C"): the root of the peer's scale
  wState,           \* SpecWindow: the bpm and windowCycles of a session state
  wWindow           \* SpecWindow: the compositionWindowMs memo of that state

sessionVars ==
  <<now, ticks, skew, pc, joinedAt, presence, presencePending, participants,
    state, stateLoaded, observed, msgs, dropped, subFrom, publishLimit, relayUp,
    transport, isMyTurn>>
applyVars == <<rLocal, rDelivered, rLast>>
draftVars == <<draftInstrument, drums, pianoDrafts, lastCommit, rootNote>>
windowVars == <<wState, wWindow>>
otherVars ==
  <<applyVars, publishLimit, relayUp, transport, isMyTurn, draftVars, windowVars>>
vars == <<sessionVars, applyVars, draftVars, windowVars>>

\* the peers of the behaviour: the browser tabs that run HomeContent
Mounted == DOMAIN pc

\* the transport of a mounted component: transportStarted.current false, position 0.
\* The position is kept as the fraction num / den of a second.
TransportIdle == [p \in Mounted |-> [started |-> FALSE, num |-> 0, den |-> 1]]

\* const isMyTurn = sessionState.activeTurn?.userId === identity.id, in a render of
\* the state the ref holds
Rendered == [p \in Mounted |-> state[p].activeTurn.userId = p]

\* Date.now() on peer p
DateNow(p) == now + skew[p]

\* identityReady and channelRef.current are set, the subscriptions are registered
Connected(p) == pc[p] \in {"joined", "ready"}

\* queueIds.indexOf(id): 0-based, -1 when absent
IndexOf(ids, id) ==
  IF \E i \in 1..Len(ids) : ids[i] = id
  THEN (CHOOSE i \in 1..Len(ids) : ids[i] = id /\ \A j \in 1..(i - 1) : ids[j] # id) - 1
  ELSE -1

\* const queue = useMemo(() => queueFromPresence(participants), [participants])
Queue(p) == queueFromPresence(participants[p])

\* const isLeader = queue[0]?.id === identity.id, for the queue of a render
IsLeaderOf(p, queue) == Len(queue) > 0 /\ queue[1].id = p

IsLeader(p) == IsLeaderOf(p, Queue(p))

\* const isMyTurn = sessionState.activeTurn?.userId === identity.id
IsMyTurn(p) == state[p].activeTurn.userId = p

\* the orders in which presence.get() may list a membership set
Orders(S) ==
  {f \in [1..Cardinality(S) -> S] : \A i, j \in 1..Cardinality(S) : i # j => f[i] # f[j]}

\* updatePresence: members mapped to Participants (every member entered with joinedAt)
Mapped(order) == [i \in 1..Len(order) |-> [id |-> order[i], joinedAt |-> joinedAt[order[i]]]]

\* a message of the channel. Bookkeeping beside the data: the publisher, the code
\* path that published it, and the version and the turn of the publisher's local
\* state (sessionStateRef.current) when publishState was called
Entry(p, op, local, data) ==
  [from |-> p, op |-> op, prev |-> local.version, turn |-> local.activeTurn, data |-> data]

\* ------------------------------------------------------------ effects
\* The effects run after the render that follows a state change; they are modelled
\* as part of the handler that changed one of their deps (queue, stateLoaded,
\* compositionWindowMs, isLeader), on the values that handler left.

\* the bootstrap test without the comparison with the peer's own id
IsQueueHeadAnyone(p, queue) == Len(queue) > 0

\* bootstrap effect: queue.length && queue[0].id === identityRef.current.id
IsQueueHead(p, queue) == Len(queue) > 0 /\ queue[1].id = p

\* bootstrap effect: the early returns
BootstrapGuard(p, queue, s, loaded) ==
  /\ ~loaded
  /\ s.creatorId = NoId
  /\ IsQueueHead(p, queue)

\* bootstrap effect: const initial: SessionState = {...}
Genesis(p, s) ==
  [bpm |-> s.bpm,
   loops |-> <<>>,
   activeTurn |-> Turn(p, DateNow(p), DateNow(p) + CompositionWindowMs(s)),
   version |-> DateNow(p),
   creatorId |-> p,
   windowCycles |-> s.windowCycles,
   playbackStartedAt |-> DateNow(p)]

\* the arbitration that hands an expired turn to the head of the queue
ArbitrationToHead(p, queue, win, s) ==
  LET ids == QueueIds(queue)
      active == s.activeTurn
      t == DateNow(p)
      here == \E i \in 1..Len(ids) : ids[i] = active.userId
  IN  IF ~IsLeaderOf(p, queue) THEN <<>>
      ELSE IF active = NoTurn \/ ~here \/ active.endsAt <= t
      THEN <<[s EXCEPT !.activeTurn = Turn(ids[1], t, t + win), !.version = t]>>
      ELSE <<>>

\* the arbitration without the isLeader test: any peer with a queue arbitrates
ArbitrationByAnyone(p, queue, win, s) ==
  LET ids == QueueIds(queue)
      active == s.activeTurn
      t == DateNow(p)
      here == \E i \in 1..Len(ids) : ids[i] = active.userId
      expired == active.endsAt <= t
      nextId == ids[((IndexOf(ids, active.userId) + 1) % Len(ids)) + 1]
  IN  IF Len(ids) = 0 THEN <<>>
      ELSE IF active = NoTurn
      THEN <<[s EXCEPT !.activeTurn = Turn(ids[1], t, t + win), !.version = t]>>
      ELSE IF ~here \/ expired
      THEN <<[s EXCEPT !.activeTurn = Turn(nextId, t, t + win), !.version = t]>>
      ELSE <<>>

\* leader arbitration effect of a render with queue and window win, run when the
\* ref holds s: the states it publishes (none or one)
Arbitration(p, queue, win, s) ==
  LET ids == QueueIds(queue)
      active == s.activeTurn
      t == DateNow(p)
      here == \E i \in 1..Len(ids) : ids[i] = active.userId
      expired == active.endsAt <= t
      nextId == ids[((IndexOf(ids, active.userId) + 1) % Len(ids)) + 1]
  IN  IF ~IsLeaderOf(p, queue) THEN <<>>
      ELSE IF active = NoTurn
      THEN <<[s EXCEPT !.activeTurn = Turn(ids[1], t, t + win), !.version = t]>>
      ELSE IF ~here \/ expired
      THEN <<[s EXCEPT !.activeTurn = Turn(nextId, t, t + win), !.version = t]>>
      ELSE <<>>

\* one pass of the two effects, in the order they are declared: what is published
EffectPublishes(p, queue, s, loaded) ==
  LET boot == IF BootstrapGuard(p, queue, s, loaded) THEN <<Genesis(p, s)>> ELSE <<>>
      s1 == IF boot = <<>> THEN s ELSE boot[1]
      arb == Arbitration(p, queue, CompositionWindowMs(s), s1)
  IN  [i \in 1..Len(boot) |-> Entry(p, "bootstrap", s, boot[i])]
        \o [i \in 1..Len(arb) |-> Entry(p, "arbitration", s1, arb[i])]

\* ------------------------------------------------------------ actions
\* publishState that returns to the state before the call when the publish is
\* rejected
PublishAsRollback(p, s, entries) ==
  /\ Len(msgs) + Len(dropped) + Len(entries) <= publishLimit
  /\ msgs' = IF relayUp THEN msgs \o entries ELSE msgs
  /\ dropped' = IF relayUp THEN dropped ELSE dropped \o entries
  /\ state' = [state EXCEPT ![p] =
       IF entries = <<>> \/ ~relayUp THEN s ELSE entries[Len(entries)].data]

\* publishState(next) for each entry: adopt locally, hand to the relay, which takes
\* the message or rejects it (the rejection is logged and nothing else);
\* s is the local state when nothing is published
PublishAs(p, s, entries) ==
  /\ Len(msgs) + Len(dropped) + Len(entries) <= publishLimit
  /\ msgs' = IF relayUp THEN msgs \o entries ELSE msgs
  /\ dropped' = IF relayUp THEN dropped ELSE dropped \o entries
  /\ state' = [state EXCEPT ![p] = IF entries = <<>> THEN s ELSE entries[Len(entries)].data]

\* the identity effect (joinedAt: Date.now()) and setup up to the history request:
\* attach, presence.enter, updatePresence(), presence.subscribe,
\* channel.subscribe("state"); the members present hear of the enter
Join(p) ==
  /\ pc[p] = "init"
  /\ pc' = [pc EXCEPT ![p] = "joined"]
  /\ joinedAt' = [joinedAt EXCEPT ![p] = DateNow(p)]
  /\ presence' = presence \cup {p}
  /\ presencePending' = [q \in Mounted |-> presencePending[q] \/ q = p \/ Connected(q)]
  /\ subFrom' = [subFrom EXCEPT ![p] = Len(msgs)]
  /\ UNCHANGED <<now, ticks, skew, participants, state, stateLoaded, observed, msgs, dropped,
                 otherVars>>

\* updatePresence after presence.get() resolved: setParticipants(queueFromPresence(mapped));
\* the queue changed, so both effects run
PresenceResolve(p) ==
  /\ Connected(p)
  /\ presencePending[p]
  /\ presencePending' = [presencePending EXCEPT ![p] = FALSE]
  /\ \E order \in Orders(presence) :
       LET parts == queueFromPresence(Mapped(order))
           queue == queueFromPresence(parts)
       IN  /\ participants' = [participants EXCEPT ![p] = parts]
           /\ PublishAs(p, state[p], EffectPublishes(p, queue, state[p], stateLoaded[p]))
           /\ stateLoaded' = [stateLoaded EXCEPT
                ![p] = @ \/ BootstrapGuard(p, queue, state[p], stateLoaded[p])]
  /\ UNCHANGED <<now, ticks, skew, pc, joinedAt, presence, observed, subFrom, otherVars>>

\* a handler adopted `next`: the effects run again when compositionWindowMs changed
\* (with stateLoaded true the bootstrap effect returns at once)
AdoptAndRunEffects(p, next) ==
  PublishAs(p, next,
    IF CompositionWindowMs(next) # CompositionWindowMs(state[p])
    THEN EffectPublishes(p, Queue(p), next, TRUE)
    ELSE <<>>)

\* the "state" subscription handler on message i of the channel
Deliver(p, i) ==
  /\ Connected(p)
  /\ i \in (subFrom[p] + 1)..Len(msgs)
  /\ LET incoming == msgs[i].data
     IN  /\ AdoptAndRunEffects(p, OnStateMessage(state[p], incoming))
         /\ stateLoaded' = [stateLoaded EXCEPT ![p] = @ \/ Adopts(state[p], incoming)]
         /\ observed' = [observed EXCEPT ![p] = @ \/ Adopts(state[p], incoming)]
  /\ UNCHANGED <<now, ticks, skew, pc, joinedAt, presence, presencePending,
                 participants, subFrom, otherVars>>

\* setup after channel.history({limit: 1}) resolved: the latest message, if any, is adopted
HistoryResolve(p) ==
  /\ pc[p] = "joined"
  /\ pc' = [pc EXCEPT ![p] = "ready"]
  /\ IF Len(msgs) > 0
     THEN /\ AdoptAndRunEffects(p, msgs[Len(msgs)].data)
          /\ stateLoaded' = [stateLoaded EXCEPT ![p] = TRUE]
          /\ observed' = [observed EXCEPT ![p] = TRUE]
     ELSE UNCHANGED <<state, stateLoaded, observed, msgs, dropped>>
  /\ UNCHANGED <<now, ticks, skew, joinedAt, presence, presencePending, participants,
                 subFrom, otherVars>>

\* setup when channel.history rejects: console.warn("history unavailable")
HistoryFail(p) ==
  /\ pc[p] = "joined"
  /\ pc' = [pc EXCEPT ![p] = "ready"]
  /\ UNCHANGED <<now, ticks, skew, joinedAt, presence, presencePending, participants,
                 state, stateLoaded, observed, msgs, dropped, subFrom, otherVars>>

\* A click reaches its handler in a later millisecond of the peer's clock than any
\* publish the peer made before: two publishes of one peer never share a Date.now().
\* (Publishes of different peers may.)
ClickAfterOwnPublishes(p) ==
  /\ \A i \in 1..Len(msgs) : msgs[i].from = p => msgs[i].data.version < DateNow(p)
  /\ \A i \in 1..Len(dropped) : dropped[i].from = p => dropped[i].data.version < DateNow(p)

\* a pass that hands the turn to the head of the queue
RotateTurnToHead(p) ==
  /\ Connected(p)
  /\ ClickAfterOwnPublishes(p)
  /\ IsMyTurn(p)
  /\ Len(Queue(p)) > 0
  /\ LET ids == QueueIds(Queue(p))
         t == DateNow(p)
     IN  PublishAs(p, state[p], <<Entry(p, "pass", state[p],
           [state[p] EXCEPT
              !.activeTurn = Turn(ids[1], t, t + CompositionWindowMs(state[p])),
              !.version = t])>>)
  /\ UNCHANGED <<now, ticks, skew, pc, joinedAt, presence, presencePending,
                 participants, stateLoaded, observed, subFrom, otherVars>>

\* rotateTurn, from the Pass button (disabled unless isMyTurn)
RotateTurn(p) ==
  /\ Connected(p)
  /\ ClickAfterOwnPublishes(p)
  /\ IsMyTurn(p)
  /\ Len(Queue(p)) > 0
  /\ LET ids == QueueIds(Queue(p))
         currentId == state[p].activeTurn.userId
         currentIdx == IF currentId # NoId THEN IndexOf(ids, currentId) ELSE -1
         nextId == ids[((currentIdx + 1) % Len(ids)) + 1]
         t == DateNow(p)
     IN  PublishAs(p, state[p], <<Entry(p, "pass", state[p],
           [state[p] EXCEPT
              !.activeTurn = Turn(nextId, t, t + CompositionWindowMs(state[p])),
              !.version = t])>>)
  /\ UNCHANGED <<now, ticks, skew, pc, joinedAt, presence, presencePending,
                 participants, stateLoaded, observed, subFrom, otherVars>>

\* toggleSessionPlayback, from the play button (shown to the creator and the leader)
ToggleSessionPlayback(p) ==
  /\ Connected(p)
  /\ ClickAfterOwnPublishes(p)
  /\ state[p].creatorId = p \/ IsLeader(p)
  /\ LET t == DateNow(p)
         isPlaying == state[p].playbackStartedAt # NullTime
     IN  PublishAs(p, state[p], <<Entry(p, "playback", state[p],
           [state[p] EXCEPT
              !.playbackStartedAt = IF isPlaying THEN NullTime ELSE t,
              !.version = t])>>)
  /\ UNCHANGED <<now, ticks, skew, pc, joinedAt, presence, presencePending,
                 participants, stateLoaded, observed, subFrom, otherVars>>

\* a clamp that bounds the tempo from above only
clampBpmAbove(bpm) == IF bpm > MAX_BPM THEN MAX_BPM ELSE bpm

\* const clampBpm = (bpm) => Math.min(180, Math.max(60, Math.round(bpm))), on integers
clampBpm(bpm) == IF bpm < MIN_BPM THEN MIN_BPM ELSE IF bpm > MAX_BPM THEN MAX_BPM ELSE bpm

\* a change that leaves the turn as it was
ExtendedNot(active, windowMs, t) == active

\* the turn moved to the new window without the 1500 ms floor
ExtendedNoFloor(active, windowMs, t) ==
  IF active = NoTurn THEN active
  ELSE [active EXCEPT !.endsAt = active.startedAt + windowMs]

\* the turn of bpmInput / cycleInput: endsAt moved to the new window, at least
\* 1500 ms from now; null stays null
Extended(active, windowMs, t) ==
  IF active = NoTurn THEN active
  ELSE [active EXCEPT !.endsAt =
          IF active.startedAt + windowMs >= t + EXTEND_MS
          THEN active.startedAt + windowMs ELSE t + EXTEND_MS]

\* a handler published `updated` from a click: publishState, then the effects of the
\* render if compositionWindowMs changed
PublishAndRunEffects(p, op, updated) ==
  LET first == <<Entry(p, op, state[p], updated)>>
      more == IF CompositionWindowMs(updated) # CompositionWindowMs(state[p])
              THEN EffectPublishes(p, Queue(p), updated, stateLoaded[p])
              ELSE <<>>
  IN  /\ PublishAs(p, state[p], first \o more)
      /\ stateLoaded' = [stateLoaded EXCEPT ![p] =
           @ \/ (CompositionWindowMs(updated) # CompositionWindowMs(state[p])
                 /\ BootstrapGuard(p, Queue(p), updated, stateLoaded[p]))]

\* bpmInput(value), from the tempo inputs (disabled unless creator or leader)
BpmInput(p, value) ==
  /\ Connected(p)
  /\ ClickAfterOwnPublishes(p)
  /\ state[p].creatorId = p \/ IsLeader(p)
  /\ LET next == clampBpm(value)
         windowMs == RoundDiv(60 * STEP_COUNT * 1000 * state[p].windowCycles, next)
         t == DateNow(p)
     IN  PublishAndRunEffects(p, "bpm",
           [state[p] EXCEPT !.bpm = next, !.version = t,
                            !.activeTurn = Extended(state[p].activeTurn, windowMs, t)])
  /\ UNCHANGED <<now, ticks, skew, pc, joinedAt, presence, presencePending,
                 participants, observed, subFrom, otherVars>>

\* cycleInput: const validCycles = [2, 4, 8]
validCycles == {2, 4, 8}

\* a cycle count taken as it comes
CyclesUnchecked(value) == value

\* cycleInput: const cycles = validCycles.includes(value) ? value : 4
Cycles(value) == IF value \in validCycles THEN value ELSE DefaultWindowCycles

\* cycleInput(value), from the window select (disabled unless creator or leader)
CycleInput(p, value) ==
  /\ Connected(p)
  /\ ClickAfterOwnPublishes(p)
  /\ state[p].creatorId = p \/ IsLeader(p)
  /\ LET cycles == Cycles(value)
         windowMs == RoundDiv(60 * STEP_COUNT * 1000 * cycles, state[p].bpm)
         t == DateNow(p)
     IN  PublishAndRunEffects(p, "cycles",
           [state[p] EXCEPT !.windowCycles = cycles, !.version = t,
                            !.activeTurn = Extended(state[p].activeTurn, windowMs, t)])
  /\ UNCHANGED <<now, ticks, skew, pc, joinedAt, presence, presencePending,
                 participants, observed, subFrom, otherVars>>

\* the setup effect's cleanup: presence.leave, unsubscribe, detach, close
Leave(p) ==
  /\ Connected(p)
  /\ pc' = [pc EXCEPT ![p] = "left"]
  /\ presence' = presence \ {p}
  /\ presencePending' = [q \in Mounted |-> q # p /\ (presencePending[q] \/ Connected(q))]
  /\ UNCHANGED <<now, ticks, skew, joinedAt, participants, state, stateLoaded,
                 observed, msgs, dropped, subFrom, otherVars>>

\* a millisecond passes
Tick ==
  /\ ticks < MaxTicks
  /\ ticks' = ticks + 1
  /\ now' = now + 1
  /\ UNCHANGED <<skew, pc, joinedAt, presence, presencePending, participants, state,
                 stateLoaded, observed, msgs, dropped, subFrom, otherVars>>

\* ------------------------------------------------------------ the handler alone
\* a committed loop, as commitDraft builds it (one kick on step 0; velocity in tenths)
SampleLoop(p, t) ==
  [id |-> "loop", userId |-> p, instrument |-> "drums", createdAt |-> t,
   notes |-> <<[id |-> "kick-0", pitch |-> "kick", step |-> 0, duration |-> 1, velocity |-> 9]>>]

\* a state some peer c published with version v: c created the session and holds the
\* turn; the reference peer's has no loop yet and plays, another peer's has one loop
\* and is paused
UpdateBy(c, v) ==
  [bpm |-> DefaultBpm,
   loops |-> IF c = RefPeer THEN <<>> ELSE <<SampleLoop(c, v)>>,
   activeTurn |-> Turn(c, v, v + CompositionWindowMs(InitialSessionState)),
   version |-> v,
   creatorId |-> c,
   windowCycles |-> DefaultWindowCycles,
   playbackStartedAt |-> IF c = RefPeer THEN v ELSE NullTime]

Updates == {UpdateBy(c, v) : c \in Peers, v \in 1..MaxVersion}

NoDelivery ==
  [op |-> "none", before |-> InitialSessionState, incoming |-> InitialSessionState,
   repeat |-> FALSE]

ApplyIdle ==
  /\ rLocal = InitialSessionState
  /\ rDelivered = {}
  /\ rLast = NoDelivery

\* commitDraft has not been called
NoCommit == [by |-> NoId, why |-> "none"]

\* the drafts of a mounted component: drums selected, empty grid, empty piano rolls
DraftIdle ==
  /\ draftInstrument = [p \in Mounted |-> "drums"]
  /\ drums = [p \in Mounted |-> {}]
  /\ pianoDrafts = [p \in Mounted |-> [keys |-> {}, bass |-> {}]]
  /\ lastCommit = NoCommit
  /\ rootNote = [p \in Mounted |-> "C"]

WindowIdle ==
  /\ wState = [bpm |-> DefaultBpm, windowCycles |-> DefaultWindowCycles]
  /\ wWindow = CompositionWindowMs(wState)

SessionIdle ==
  /\ now = 1
  /\ ticks = 0
  /\ skew = [p \in Peers |-> 0]
  /\ pc = [p \in Peers |-> "init"]
  /\ joinedAt = [p \in Peers |-> 0]
  /\ presence = {}
  /\ presencePending = [p \in Peers |-> FALSE]
  /\ participants = [p \in Peers |-> <<>>]
  /\ state = [p \in Peers |-> InitialSessionState]
  /\ stateLoaded = [p \in Peers |-> FALSE]
  /\ observed = [p \in Peers |-> FALSE]
  /\ msgs = <<>>
  /\ dropped = <<>>
  /\ relayUp = TRUE
  /\ transport = TransportIdle
  /\ isMyTurn = Rendered
  /\ subFrom = [p \in Peers |-> 0]
  /\ publishLimit = MaxPublish

\* the relay delivers update m to the peer's "state" handler
ApplyDeliver(m) ==
  /\ rLocal' = OnStateMessage(rLocal, m)
  /\ rDelivered' = rDelivered \cup {m}
  /\ rLast' = [op |-> "deliver", before |-> rLocal, incoming |-> m,
               repeat |-> (rLast.op = "deliver" /\ rLast.incoming = m)]
  /\ UNCHANGED <<sessionVars, draftVars, windowVars>>

InitApply == SessionIdle /\ ApplyIdle /\ DraftIdle /\ WindowIdle

NextApply == \E m \in Updates : ApplyDeliver(m)

SpecApply == InitApply /\ [][NextApply]_vars

Init ==
  /\ now = 1
  /\ ticks = 0
  /\ skew \in {f \in [Peers -> ClockSkews] : f[RefPeer] = 0}
  /\ pc = [p \in Peers |-> "init"]
  /\ joinedAt = [p \in Peers |-> 0]
  /\ presence = {}
  /\ presencePending = [p \in Peers |-> FALSE]
  /\ participants = [p \in Peers |-> <<>>]
  /\ state = [p \in Peers |-> InitialSessionState]
  /\ stateLoaded = [p \in Peers |-> FALSE]
  /\ observed = [p \in Peers |-> FALSE]
  /\ msgs = <<>>
  /\ dropped = <<>>
  /\ relayUp = TRUE
  /\ transport = TransportIdle
  /\ isMyTurn = Rendered
  /\ subFrom = [p \in Peers |-> 0]
  /\ publishLimit = MaxPublish
  /\ ApplyIdle
  /\ DraftIdle
  /\ WindowIdle

Next ==
  \/ \E p \in Mounted : Join(p)
  \/ \E p \in Mounted : PresenceResolve(p)
  \/ \E p \in Mounted : \E i \in 1..Len(msgs) : Deliver(p, i)
  \/ \E p \in Mounted : HistoryResolve(p)
  \/ \E p \in Mounted : HistoryFail(p)
  \/ \E p \in Mounted : RotateTurn(p)
  \/ \E p \in Mounted : ToggleSessionPlayback(p)
  \/ \E p \in Mounted : \E value \in CycleValues : CycleInput(p, value)
  \/ \E p \in Mounted : Leave(p)
  \/ Tick

Spec == Init /\ [][Next]_vars

\* ------------------------------------------------------------ turns
\* time passes with no event at any peer: longer than a composition window of the
\* default tempo plus one period of the only timer the component runs (the
\* turnRemaining interval, which sets turnRemaining and nothing else)
ElapseMs == CompositionWindowMs(InitialSessionState) + TURN_POLL_MS + 1

Elapse ==
  /\ ticks < MaxElapse
  /\ ticks' = ticks + 1
  /\ now' = now + ElapseMs
  /\ UNCHANGED <<skew, pc, joinedAt, presence, presencePending, participants, state,
                 stateLoaded, observed, msgs, dropped, subFrom, otherVars>>

\* a session under way: the peers entered at 1, 2, 3 ms, every snapshot holds the
\* three of them, and every peer has adopted the state in which h just got the turn
TurnState(h, t) ==
  [bpm |-> DefaultBpm, loops |-> <<>>,
   activeTurn |-> Turn(h, t, t + CompositionWindowMs(InitialSessionState)),
   version |-> t, creatorId |-> TurnPeers[1], windowCycles |-> DefaultWindowCycles,
   playbackStartedAt |-> 1]

TurnPeerSet == {TurnPeers[i] : i \in 1..Len(TurnPeers)}

InitTurn ==
  /\ now = Len(TurnPeers) + 1
  /\ ticks = 0
  /\ pc = [p \in TurnPeerSet |-> "ready"]
  /\ skew = [p \in TurnPeerSet |-> 0]
  /\ joinedAt = [p \in TurnPeerSet |-> IndexOf(TurnPeers, p) + 1]
  /\ presence = TurnPeerSet
  /\ presencePending = [p \in TurnPeerSet |-> FALSE]
  /\ participants = [p \in TurnPeerSet |-> Mapped(TurnPeers)]
  /\ \E h \in TurnPeerSet : state = [p \in TurnPeerSet |-> TurnState(h, now)]
  /\ stateLoaded = [p \in TurnPeerSet |-> TRUE]
  /\ observed = [p \in TurnPeerSet |-> TRUE]
  /\ msgs = <<>>
  /\ dropped = <<>>
  /\ relayUp = TRUE
  /\ transport = TransportIdle
  /\ isMyTurn = Rendered
  /\ subFrom = [p \in TurnPeerSet |-> 0]
  /\ publishLimit = MaxTurnPublish
  /\ ApplyIdle
  /\ DraftIdle
  /\ WindowIdle

NextTurn ==
  \/ \E p \in Mounted : Leave(p)
  \/ \E p \in Mounted : PresenceResolve(p)
  \/ \E p \in Mounted : \E i \in 1..Len(msgs) : Deliver(p, i)
  \/ \E p \in Mounted : RotateTurn(p)
  \/ \E p \in Mounted : \E value \in BpmValues : BpmInput(p, value)
  \/ Elapse

SpecTurn == InitTurn /\ [][NextTurn]_vars

\* ------------------------------------------------------------ commits
\* The drafts are modelled on step 0 of the grids: a drum draft is the set of rows
\* that have step 0 on, a melodic draft the set of scale pitches placed on step 0.
\* The melodic notes are listed by ascending pitch (the code lists them in the order
\* they were drawn, then by step). The scale is major (the default of the scale-type
\* select), rooted at rootNote; the octave buttons are left out.

\* the rows of the drum grid the behaviours edit, in DRUM_ROWS order
DrumRows == {DRUM_ROWS[i] : i \in 1..MaxDrumRows}

\* the notes of the rows / pitches `on`, in the order `rows` lists them
RECURSIVE NotesOf(_, _, _)
NotesOf(rows, on, velocity) ==
  IF rows = <<>> THEN <<>>
  ELSE (IF Head(rows) \in on
        THEN <<[id |-> <<Head(rows), 0>>, pitch |-> Head(rows), step |-> 0,
                duration |-> 1, velocity |-> velocity]>>
        ELSE <<>>) \o NotesOf(Tail(rows), on, velocity)

\* drumsToNotes(grid): velocity 0.9, kept in tenths
drumsToNotes(grid) == NotesOf(DRUM_ROWS, grid, 9)

\* ROOT_NOTES
ROOT_NOTES == <<"C", "C#", "D", "D#", "E", "F", "F#", "G", "G#", "A", "A#", "B">>

\* SCALE_TYPES[0].intervals: the major scale
MajorIntervals == {0, 2, 4, 5, 7, 9, 11}

\* the range generateScaleFromMidi generates notes in: C0 to C8
LowestMidi == 12
HighestMidi == 108

\* useState(60), useState(36): keysBaseMidi and bassBaseMidi
KeysBaseMidi == 60
BassBaseMidi == 36

\* the notes a scale window holds (noteCount)
NoteCount == 8

\* midiToNoteName(midi)
midiToNoteName(midi) == ROOT_NOTES[(midi % 12) + 1] \o ToString((midi \div 12) - 1)

\* the keys of the piano, lowest first
PianoKeys == [i \in 1..(HighestMidi - LowestMidi + 1) |-> midiToNoteName(LowestMidi + i - 1)]

\* allScaleNotes.sort((a, b) => a.midi - b.midi): the members of a set of MIDI
\* numbers, ascending
Ascending(S) ==
  [i \in 1..Cardinality(S) |-> CHOOSE m \in S : Cardinality({n \in S : n < m}) = i - 1]

\* generateScaleFromMidi(baseMidi, "major", root, NoteCount): the note names of the
\* window of the scale that starts at the first scale note >= baseMidi
generateScaleFromMidi(baseMidi, root) ==
  LET rootIndex == IndexOf(ROOT_NOTES, root)
      all == Ascending({m \in LowestMidi..HighestMidi :
                          \E octave \in 0..8 : \E interval \in MajorIntervals :
                            m = (octave + 1) * 12 + rootIndex + interval})
      from == {i \in 1..Len(all) : all[i] >= baseMidi}
      found == IF from = {} THEN Len(all) - NoteCount
               ELSE (CHOOSE i \in from : \A j \in from : i <= j) - 1
      capped == IF found < Len(all) - NoteCount THEN found ELSE Len(all) - NoteCount
      startIdx == IF capped < 0 THEN 0 ELSE capped
      last == IF startIdx + NoteCount < Len(all) THEN startIdx + NoteCount ELSE Len(all)
  IN  IF rootIndex = -1 THEN <<>>
      ELSE [i \in 1..(last - startIdx) |-> midiToNoteName(all[startIdx + i])]

\* the scale windows of the keys and of the bass, for every root of the root select
KeysScaleNotes ==
  [root \in {ROOT_NOTES[i] : i \in 1..Len(ROOT_NOTES)} |->
    generateScaleFromMidi(KeysBaseMidi, root)]
BassScaleNotes ==
  [root \in {ROOT_NOTES[i] : i \in 1..Len(ROOT_NOTES)} |->
    generateScaleFromMidi(BassBaseMidi, root)]

\* keysScale.notes and bassScale.notes of a peer
keysScale(p) == KeysScaleNotes[rootNote[p]]
bassScale(p) == BassScaleNotes[rootNote[p]]

\* pianoDrafts[melodic]: the notes drawn on step 0 of the pitches `on`, lowest first
DrawnNotes(on) ==
  LET On(key) == key \in on
      keys == SelectSeq(PianoKeys, On)
  IN  [i \in 1..Len(keys) |->
        [id |-> <<keys[i], 0>>, pitch |-> keys[i], step |-> 0, duration |-> 1,
         velocity |-> 85]]

\* getDraftNotes() that returns the notes as they were drawn
getDraftNotesAsDrawn(p) ==
  IF draftInstrument[p] = "drums" THEN drumsToNotes(drums[p])
  ELSE DrawnNotes(pianoDrafts[p][draftInstrument[p]])

\* getDraftNotes(): the melodic notes carry velocity 0.85, kept in hundredths; a
\* note whose pitch is not in the scale gets the first note of the scale
getDraftNotes(p) ==
  IF draftInstrument[p] = "drums" THEN drumsToNotes(drums[p])
  ELSE LET scaleNotes == IF draftInstrument[p] = "keys" THEN keysScale(p) ELSE bassScale(p)
           chosen == DrawnNotes(pianoDrafts[p][draftInstrument[p]])
       IN  [i \in 1..Len(chosen) |->
             IF \A k \in 1..Len(scaleNotes) : scaleNotes[k] # chosen[i].pitch
             THEN [chosen[i] EXCEPT !.pitch = scaleNotes[1]]
             ELSE chosen[i]]

\* the pitches of a note list
Pitches(notes) == {notes[i].pitch : i \in 1..Len(notes)}

\* usedDrumSounds: the pitches of the committed drum loops
usedDrumSounds(loops) ==
  UNION {Pitches(loops[i].notes) : i \in {j \in 1..Len(loops) : loops[j].instrument = "drums"}}

\* drumConflict: the sounds of the drum draft that committed drum loops use (null: none)
drumConflict(p) ==
  IF draftInstrument[p] # "drums" THEN {}
  ELSE Pitches(drumsToNotes(drums[p])) \cap usedDrumSounds(state[p].loops)

\* loopLimit
LoopLimit(instrument) == IF instrument = "drums" THEN DRUM_LOOP_LIMIT ELSE MELODIC_LOOP_LIMIT

\* the loops of an instrument, in list order
LoopsOf(loops, instrument) ==
  LET Same(l) == l.instrument = instrument IN SelectSeq(loops, Same)

\* commitDraft with every loop kept: the new loop is appended to the whole list
CommitLoopsAppend(loops, instrument, target, newLoop) == loops \o <<newLoop>>

\* commitDraft keeping the loops of the draft's instrument instead of the others
CommitLoopsKeepSame(loops, instrument, target, newLoop) ==
  LoopsOf(loops, instrument) \o <<newLoop>>

\* commitDraft: updatedLoops, for the draft's instrument, replaceTarget and the new loop
CommitLoops(loops, instrument, target, newLoop) ==
  LET existing == LoopsOf(loops, instrument)
      Other(l) == l.instrument # instrument
      chosenId == IF target # NoId THEN target ELSE existing[1].id
      NotChosen(l) == l.id # chosenId
      keepLoops == IF Len(existing) >= LoopLimit(instrument)
                   THEN SelectSeq(loops, NotChosen)
                   ELSE SelectSeq(loops, Other)
  IN  keepLoops \o <<newLoop>>

\* commitDraft without the test of isMyTurn
CommitRejectionAnyone(p) ==
  IF getDraftNotes(p) = <<>> THEN "empty"
  ELSE IF draftInstrument[p] = "drums" /\ drumConflict(p) # {} THEN "conflict"
  ELSE "none"

\* commitDraft: the early return taken, "none" when the commit goes ahead
CommitRejection(p) ==
  IF ~IsMyTurn(p) THEN "not-turn"
  ELSE IF getDraftNotes(p) = <<>> THEN "empty"
  ELSE IF draftInstrument[p] = "drums" /\ drumConflict(p) # {} THEN "conflict"
  ELSE "none"

\* commitDraft: const newLoop (nanoid(8) gives a fresh id: the number of the message
\* that will carry the loop)
NewLoop(p) ==
  [id |-> Len(msgs) + 1, userId |-> p, instrument |-> draftInstrument[p],
   createdAt |-> DateNow(p), notes |-> getDraftNotes(p)]

\* commitDraft: nextTurn (null for an empty queue)
NextTurnAfter(p) ==
  LET ids == QueueIds(Queue(p))
      t == DateNow(p)
  IN  IF Len(ids) = 0 THEN NoTurn
      ELSE Turn(ids[((IndexOf(ids, p) + 1) % Len(ids)) + 1], t,
                t + CompositionWindowMs(state[p]))

\* replaceTarget: the radio that sets it is rendered while the draft's instrument
\* is at its limit, and commitDraft and the instrument buttons reset it to null
ReplaceTarget(p) == NoId

\* what a call of commitDraft is remembered by
CommitRecord(p, why) == [by |-> p, why |-> why]

\* clearDraft(): the draft of the selected instrument is emptied
ClearDraft(p) ==
  IF draftInstrument[p] = "drums"
  THEN drums' = [drums EXCEPT ![p] = {}] /\ UNCHANGED pianoDrafts
  ELSE /\ pianoDrafts' = [pianoDrafts EXCEPT ![p][draftInstrument[p]] = {}]
       /\ UNCHANGED drums

\* commitDraft that publishes the loops first and the turn in a second message
CommitPublishesSplit(p, loops) ==
  LET first == [state[p] EXCEPT !.loops = loops, !.version = DateNow(p)]
  IN  <<Entry(p, "commit", state[p], first),
        Entry(p, "commit", first, [first EXCEPT !.activeTurn = NextTurnAfter(p)])>>

\* commitDraft: the publishState call
CommitPublishes(p, loops) ==
  <<Entry(p, "commit", state[p],
      [state[p] EXCEPT !.loops = loops, !.activeTurn = NextTurnAfter(p),
                       !.version = DateNow(p)])>>

\* commitDraft run with the early return `why` and the loop list `loops`
CommitWith(p, why, loops) ==
  /\ Connected(p)
  /\ lastCommit' = CommitRecord(p, why)
  /\ IF why = "none"
     THEN /\ ClickAfterOwnPublishes(p)
          /\ PublishAs(p, state[p], CommitPublishes(p, loops))
          /\ ClearDraft(p)
     ELSE UNCHANGED <<state, msgs, dropped, drums, pianoDrafts>>
  /\ UNCHANGED <<now, ticks, skew, pc, joinedAt, presence, presencePending, participants,
                 stateLoaded, observed, subFrom, publishLimit, relayUp, transport,
                 isMyTurn, applyVars, windowVars, draftInstrument, rootNote>>

\* commitDraft without the conflict test and with every loop kept
CommitDraftUnchecked(p) ==
  CommitWith(p, IF ~IsMyTurn(p) THEN "not-turn"
                ELSE IF getDraftNotes(p) = <<>> THEN "empty" ELSE "none",
             state[p].loops \o <<NewLoop(p)>>)

\* commitDraft, called in any state (the Commit Loop button is disabled when an
\* early return would be taken; the function tests again)
CommitDraft(p) ==
  CommitWith(p, CommitRejection(p),
             CommitLoops(state[p].loops, draftInstrument[p], ReplaceTarget(p), NewLoop(p)))

\* the instrument buttons: setDraftInstrument(inst); setReplaceTarget(null)
SetDraftInstrument(p, inst) ==
  /\ Connected(p)
  /\ draftInstrument[p] # inst
  /\ draftInstrument' = [draftInstrument EXCEPT ![p] = inst]
  /\ UNCHANGED <<sessionVars, applyVars, windowVars, drums, pianoDrafts, lastCommit,
                 rootNote>>

\* DrumGrid onSet(row, step 0, value): ignored unless isMyTurn and the row is not a
\* used sound
DrumSet(p, row, value) ==
  /\ Connected(p)
  /\ draftInstrument[p] = "drums"
  /\ IsMyTurn(p)
  /\ row \notin usedDrumSounds(state[p].loops)
  /\ drums' = [drums EXCEPT ![p] = IF value THEN @ \cup {row} ELSE @ \ {row}]
  /\ UNCHANGED <<sessionVars, applyVars, windowVars, draftInstrument, pianoDrafts,
                 lastCommit, rootNote>>

\* PianoRoll onSet(pitch, step 0, value): ignored unless isMyTurn
PianoSet(p, pitch, value) ==
  /\ Connected(p)
  /\ draftInstrument[p] # "drums"
  /\ IsMyTurn(p)
  /\ pianoDrafts' = [pianoDrafts EXCEPT ![p][draftInstrument[p]] =
                       IF value THEN @ \cup {pitch} ELSE @ \ {pitch}]
  /\ UNCHANGED <<sessionVars, applyVars, windowVars, draftInstrument, drums, lastCommit,
                 rootNote>>

\* the loop a peer committed in an earlier turn
EarlierLoop(p, instrument, t) ==
  [id |-> 0, userId |-> p, instrument |-> instrument, createdAt |-> t,
   notes |-> NotesOf(SCALE_NOTES, {SCALE_NOTES[1]}, 85)]

\* a session of two peers under way: they entered at 1 and 2 ms and both snapshots
\* hold both. The second peer has had a turn: it left some rows on in its drum grid,
\* then committed a keys loop, which gave the turn to the first peer. Both peers
\* have adopted that state. The behaviours of SpecCommit happen within the next
\* millisecond.
InitCommit ==
  /\ now = Cardinality(Peers) + 1
  /\ ticks = 0
  /\ pc = [p \in Peers |-> "ready"]
  /\ skew = [p \in Peers |-> 0]
  /\ joinedAt = [p \in Peers |-> IndexOf(TurnPeers, p) + 1]
  /\ presence = Peers
  /\ presencePending = [p \in Peers |-> FALSE]
  /\ participants = [p \in Peers |-> Mapped(SubSeq(TurnPeers, 1, Cardinality(Peers)))]
  /\ state = [p \in Peers |->
       [TurnState(TurnPeers[1], now - 1) EXCEPT
          !.loops = <<EarlierLoop(TurnPeers[2], "keys", now - 1)>>]]
  /\ stateLoaded = [p \in Peers |-> TRUE]
  /\ observed = [p \in Peers |-> TRUE]
  /\ msgs = <<>>
  /\ dropped = <<>>
  /\ relayUp = TRUE
  /\ transport = TransportIdle
  /\ isMyTurn = Rendered
  /\ subFrom = [p \in Peers |-> 0]
  /\ publishLimit = MaxPublish
  /\ ApplyIdle
  /\ draftInstrument = [p \in Peers |-> IF p = TurnPeers[2] THEN "keys" ELSE "drums"]
  /\ \E rows \in SUBSET DrumRows :
       drums = [p \in Peers |-> IF p = TurnPeers[2] THEN rows ELSE {}]
  /\ pianoDrafts = [p \in Peers |-> [keys |-> {}, bass |-> {}]]
  /\ lastCommit = NoCommit
  /\ rootNote = [p \in Peers |-> "C"]
  /\ WindowIdle

NextCommit ==
  \/ \E p \in Mounted : \E inst \in DraftInstruments : SetDraftInstrument(p, inst)
  \/ \E p \in Mounted : \E row \in DrumRows : \E value \in BOOLEAN : DrumSet(p, row, value)
  \/ \E p \in Mounted : \E pitch \in Pitches(NotesOf(SCALE_NOTES, {SCALE_NOTES[1]}, 85)) :
       \E value \in BOOLEAN : PianoSet(p, pitch, value)
  \/ \E p \in Mounted : CommitDraft(p)
  \/ \E p \in Mounted : RotateTurn(p)
  \/ \E p \in Mounted : \E i \in 1..Len(msgs) : Deliver(p, i)

SpecCommit == InitCommit /\ [][NextCommit]_vars

\* ------------------------------------------------------------ the window alone
\* the tempo input sets bpm (bpmInput: clampBpm(value)); the memo is recomputed
WindowBpm(value) ==
  /\ wState' = [wState EXCEPT !.bpm = clampBpm(value)]
  /\ wWindow' = CompositionWindowMs(wState')
  /\ UNCHANGED <<sessionVars, applyVars, draftVars>>

\* the window select sets windowCycles (cycleInput: 2, 4 or 8, else 4); the memo is
\* recomputed
WindowCycles(value) ==
  /\ wState' = [wState EXCEPT !.windowCycles = IF value \in {2, 4, 8} THEN value ELSE 4]
  /\ wWindow' = CompositionWindowMs(wState')
  /\ UNCHANGED <<sessionVars, applyVars, draftVars>>

InitWindow == SessionIdle /\ ApplyIdle /\ DraftIdle /\ WindowIdle

NextWindow ==
  \/ \E value \in (MIN_BPM - 1)..(MAX_BPM + 1) : WindowBpm(value)
  \/ \E value \in 1..8 : WindowCycles(value)

SpecWindow == InitWindow /\ [][NextWindow]_vars

\* ------------------------------------------------------------ tempo and window changes
\* SpecTempo: a session under way with two peers and a running turn; the creator
\* (who leads the queue) types tempos and picks window lengths, early in the turn
\* and late in it.

\* values handed to bpmInput: below the range, inside it, above it
TempoBpms == {MIN_BPM - 30, 90, MAX_BPM + 60}

\* values handed to cycleInput: one outside validCycles, one inside
TempoCycles == {1, 8}

\* the time into a default turn from which the window of the fastest tempo has less
\* than 1500 ms left
LateMs == RoundDiv(60 * STEP_COUNT * DefaultWindowCycles * 1000, MAX_BPM) - EXTEND_MS + 1

\* LateMs pass without any event
Advance ==
  /\ ticks < MaxElapse
  /\ ticks' = ticks + 1
  /\ now' = now + LateMs
  /\ UNCHANGED <<skew, pc, joinedAt, presence, presencePending, participants, state,
                 stateLoaded, observed, msgs, dropped, subFrom, otherVars>>

InitTempo ==
  /\ now = Cardinality(Peers) + 1
  /\ ticks = 0
  /\ pc = [p \in Peers |-> "ready"]
  /\ skew = [p \in Peers |-> 0]
  /\ joinedAt = [p \in Peers |-> IndexOf(TurnPeers, p) + 1]
  /\ presence = Peers
  /\ presencePending = [p \in Peers |-> FALSE]
  /\ participants = [p \in Peers |-> Mapped(SubSeq(TurnPeers, 1, Cardinality(Peers)))]
  /\ \E h \in Peers : state = [p \in Peers |-> TurnState(h, now - 1)]
  /\ stateLoaded = [p \in Peers |-> TRUE]
  /\ observed = [p \in Peers |-> TRUE]
  /\ msgs = <<>>
  /\ dropped = <<>>
  /\ relayUp = TRUE
  /\ transport = TransportIdle
  /\ isMyTurn = Rendered
  /\ subFrom = [p \in Peers |-> 0]
  /\ publishLimit = MaxPublish
  /\ ApplyIdle
  /\ DraftIdle
  /\ WindowIdle

NextTempo ==
  \/ \E p \in Mounted : \E value \in TempoBpms : BpmInput(p, value)
  \/ \E p \in Mounted : \E value \in TempoCycles : CycleInput(p, value)
  \/ \E p \in Mounted : RotateTurn(p)
  \/ \E p \in Mounted : \E i \in 1..Len(msgs) : Deliver(p, i)
  \/ Advance

SpecTempo == InitTempo /\ [][NextTempo]_vars

\* ------------------------------------------------------------ rejected publishes
\* SpecRelay: a session under way with two peers; the relay stops taking publishes
\* and takes them again, while the peers pass the turn and toggle playback.

\* from here on channel.publish("state", next) rejects
RelayFails ==
  /\ relayUp
  /\ relayUp' = FALSE
  /\ UNCHANGED <<now, ticks, skew, pc, joinedAt, presence, presencePending, participants,
                 state, stateLoaded, observed, msgs, dropped, subFrom, publishLimit,
                 transport, isMyTurn, applyVars, draftVars, windowVars>>

\* from here on channel.publish("state", next) resolves
RelayRecovers ==
  /\ ~relayUp
  /\ relayUp' = TRUE
  /\ UNCHANGED <<now, ticks, skew, pc, joinedAt, presence, presencePending, participants,
                 state, stateLoaded, observed, msgs, dropped, subFrom, publishLimit,
                 transport, isMyTurn, applyVars, draftVars, windowVars>>

InitRelay == InitTempo

NextRelay ==
  \/ RelayFails
  \/ RelayRecovers
  \/ \E p \in Mounted : RotateTurn(p)
  \/ \E p \in Mounted : ToggleSessionPlayback(p)
  \/ \E p \in Mounted : \E i \in 1..Len(msgs) : Deliver(p, i)
  \/ Tick

SpecRelay == InitRelay /\ [][NextRelay]_vars

\* ------------------------------------------------------------ leaving during setup
\* SpecSetup: setup() step by step. One peer has created the session; another mounts,
\* and the cleanup of its setup effect may run while attach, presence.enter or the
\* history request is pending. The continuation of setup() tests no flag, so it
\* runs on after the cleanup. The client is closed by then: a realtime call made
\* after the cleanup (presence.enter, presence.get, a subscription) rejects or stays
\* silent, a call in flight resolves or rejects, and channel.history, a request of
\* its own, resolves or rejects as before.
\* pc: "init" | "attaching" | "entering" | "joined" | "ready" | "failed", and after the
\* cleanup "leftAttaching" | "leftEntering" | "leftFetching" | "left".

\* the cleanup of the setup effect has run
LeftStages == {"leftAttaching", "leftEntering", "leftFetching", "left"}

\* the identity effect and the start of the setup effect: setup() awaits attach
Mount(p) ==
  /\ pc[p] = "init"
  /\ pc' = [pc EXCEPT ![p] = "attaching"]
  /\ joinedAt' = [joinedAt EXCEPT ![p] = DateNow(p)]
  /\ UNCHANGED <<now, ticks, skew, presence, presencePending, participants, state,
                 stateLoaded, observed, msgs, dropped, subFrom, otherVars>>

\* await channel.attach() resolved: setup() awaits presence.enter
AttachResolve(p) ==
  /\ pc[p] = "attaching"
  /\ pc' = [pc EXCEPT ![p] = "entering"]
  /\ UNCHANGED <<now, ticks, skew, joinedAt, presence, presencePending, participants,
                 state, stateLoaded, observed, msgs, dropped, subFrom, otherVars>>

\* await channel.presence.enter() resolved: updatePresence(), presence.subscribe,
\* channel.subscribe("state"), and setup() awaits channel.history
EnterResolve(p) ==
  /\ pc[p] = "entering"
  /\ pc' = [pc EXCEPT ![p] = "joined"]
  /\ presence' = presence \cup {p}
  /\ presencePending' = [q \in Mounted |-> presencePending[q] \/ q = p \/ Connected(q)]
  /\ subFrom' = [subFrom EXCEPT ![p] = Len(msgs)]
  /\ UNCHANGED <<now, ticks, skew, joinedAt, participants, state, stateLoaded, observed,
                 msgs, dropped, otherVars>>

\* attach or presence.enter rejected: catch, setConnectionError
SetupReject(p) ==
  /\ pc[p] \in {"attaching", "entering"}
  /\ pc' = [pc EXCEPT ![p] = "failed"]
  /\ UNCHANGED <<now, ticks, skew, joinedAt, presence, presencePending, participants,
                 state, stateLoaded, observed, msgs, dropped, subFrom, otherVars>>

\* the cleanup of the setup effect, wherever setup() stands: presence.leave,
\* presence.unsubscribe, channel.unsubscribe, detach, close
Cleanup(p) ==
  /\ pc[p] \in {"attaching", "entering", "joined", "ready", "failed"}
  /\ pc' = [pc EXCEPT ![p] =
       CASE pc[p] = "attaching" -> "leftAttaching"
         [] pc[p] = "entering" -> "leftEntering"
         [] pc[p] = "joined" -> "leftFetching"
         [] OTHER -> "left"]
  /\ presence' = presence \ {p}
  /\ presencePending' =
       [q \in Mounted |-> q # p /\ (presencePending[q] \/ (p \in presence /\ Connected(q)))]
  /\ UNCHANGED <<now, ticks, skew, joinedAt, participants, state, stateLoaded, observed,
                 msgs, dropped, subFrom, otherVars>>

\* after the cleanup the pending attach settles: rejected, or resolved and the
\* presence.enter that setup() then calls on the closed client rejects
AttachSettlesAfterLeave(p) ==
  /\ pc[p] = "leftAttaching"
  /\ pc' = [pc EXCEPT ![p] = "left"]
  /\ UNCHANGED <<now, ticks, skew, joinedAt, presence, presencePending, participants,
                 state, stateLoaded, observed, msgs, dropped, subFrom, otherVars>>

\* after the cleanup the pending presence.enter resolves: setup() goes on to
\* updatePresence() (presence.get rejects), to the subscriptions (nothing arrives on
\* the closed client) and to the history request
EnterResolvesAfterLeave(p) ==
  /\ pc[p] = "leftEntering"
  /\ pc' = [pc EXCEPT ![p] = "leftFetching"]
  /\ UNCHANGED <<now, ticks, skew, joinedAt, presence, presencePending, participants,
                 state, stateLoaded, observed, msgs, dropped, subFrom, otherVars>>

\* after the cleanup the pending presence.enter or channel.history rejects
RejectAfterLeave(p) ==
  /\ pc[p] \in {"leftEntering", "leftFetching"}
  /\ pc' = [pc EXCEPT ![p] = "left"]
  /\ UNCHANGED <<now, ticks, skew, joinedAt, presence, presencePending, participants,
                 state, stateLoaded, observed, msgs, dropped, subFrom, otherVars>>

\* after the cleanup channel.history resolves: the latest message, if any, is written
\* to sessionStateRef.current (the setState calls reach an unmounted component, and
\* no effect runs)
HistoryResolvesAfterLeave(p) ==
  /\ pc[p] = "leftFetching"
  /\ pc' = [pc EXCEPT ![p] = "left"]
  /\ state' = [state EXCEPT ![p] = IF Len(msgs) > 0 THEN msgs[Len(msgs)].data ELSE @]
  /\ UNCHANGED <<now, ticks, skew, joinedAt, presence, presencePending, participants,
                 stateLoaded, observed, msgs, dropped, subFrom, otherVars>>

\* the first peer has mounted alone at 1 and published the session's first state;
\* the behaviour may bring the channel to `limit` messages
Created(limit) ==
  LET creator == TurnPeers[1]
  IN  /\ now = 2
      /\ ticks = 0
      /\ pc = [p \in Peers |-> IF p = creator THEN "ready" ELSE "init"]
      /\ skew = [p \in Peers |-> 0]
      /\ joinedAt = [p \in Peers |-> IF p = creator THEN 1 ELSE 0]
      /\ presence = {creator}
      /\ presencePending = [p \in Peers |-> FALSE]
      /\ participants =
           [p \in Peers |-> IF p = creator THEN <<[id |-> creator, joinedAt |-> 1]>> ELSE <<>>]
      /\ state = [p \in Peers |->
           IF p = creator THEN TurnState(creator, 1) ELSE InitialSessionState]
      /\ stateLoaded = [p \in Peers |-> p = creator]
      /\ observed = [p \in Peers |-> FALSE]
      /\ msgs = <<Entry(creator, "bootstrap", InitialSessionState, TurnState(creator, 1))>>
      /\ dropped = <<>>
      /\ relayUp = TRUE
      /\ transport = TransportIdle
      /\ isMyTurn = Rendered
      /\ subFrom = [p \in Peers |-> 0]
      /\ publishLimit = limit
      /\ ApplyIdle
      /\ DraftIdle
      /\ WindowIdle

InitSetup == Created(MaxPublish)

NextSetup ==
  \/ \E p \in Mounted : Mount(p)
  \/ \E p \in Mounted : AttachResolve(p)
  \/ \E p \in Mounted : EnterResolve(p)
  \/ \E p \in Mounted : SetupReject(p)
  \/ \E p \in Mounted : PresenceResolve(p)
  \/ \E p \in Mounted : \E i \in 1..Len(msgs) : Deliver(p, i)
  \/ \E p \in Mounted : HistoryResolve(p)
  \/ \E p \in Mounted : HistoryFail(p)
  \/ \E p \in Mounted : ToggleSessionPlayback(p)
  \/ \E p \in Mounted : Cleanup(p)
  \/ \E p \in Mounted : AttachSettlesAfterLeave(p)
  \/ \E p \in Mounted : EnterResolvesAfterLeave(p)
  \/ \E p \in Mounted : RejectAfterLeave(p)
  \/ \E p \in Mounted : HistoryResolvesAfterLeave(p)
  \/ Tick

SpecSetup == InitSetup /\ [][NextSetup]_vars

\* ------------------------------------------------------------ a turn without a queue
\* SpecLate: one peer has created the session and another joins. The newcomer's
\* first presence.get() may still be pending when the turn reaches it, so it can
\* draft and commit with an empty queue.

InitLate == Created(MaxPublish + 2)

NextLate ==
  \/ \E p \in Mounted : Join(p)
  \/ \E p \in Mounted : PresenceResolve(p)
  \/ \E p \in Mounted : \E i \in 1..Len(msgs) : Deliver(p, i)
  \/ \E p \in Mounted : HistoryResolve(p)
  \/ \E p \in Mounted : RotateTurn(p)
  \/ \E p \in Mounted : \E row \in DrumRows : \E value \in BOOLEAN : DrumSet(p, row, value)
  \/ \E p \in Mounted : CommitDraft(p)

SpecLate == InitLate /\ [][NextLate]_vars

\* ============================================================ claims

\* the ids a peer's presence snapshot holds
Members(p) == {participants[p][i].id : i \in 1..Len(participants[p])}

\* ------------------------------------------------------------ C1
\* C1: whatever updates the handler was fed, in whatever order and however often,
\* the local state is one of the delivered updates and no delivered update has a
\* higher version.
C1_MaxVersionWins ==
  rDelivered # {} =>
    /\ rLocal \in rDelivered
    /\ \A m \in rDelivered : m.version <= rLocal.version

\* an older update arrived after a newer one and was discarded
C1_Witness ==
  /\ rLast.op = "deliver"
  /\ rLast.incoming.version < rLocal.version
  /\ \E m \in rDelivered : m.version = MaxVersion
  /\ \E m \in rDelivered : m.version = 1

\* ------------------------------------------------------------ C2
\* C2: a delivery with incoming.version >= local.version leaves exactly the
\* incoming state as the local state; any other delivery leaves the local state
\* as it was.
C2_AdoptIffNotOlder ==
  rLast.op = "deliver" =>
    IF rLast.incoming.version >= rLast.before.version
    THEN rLocal = rLast.incoming
    ELSE rLocal = rLast.before

\* an update replaced a different adopted state of the same version
C2_Witness ==
  /\ rLast.op = "deliver"
  /\ rLast.before.version = rLast.incoming.version
  /\ rLast.before # rLast.incoming
  /\ rLocal = rLast.incoming

\* ------------------------------------------------------------ C3
\* C3: whenever a peer's adopted state changes (by a delivery, by the history
\* fetch, by its own publishState) the new state's version is strictly greater.
C3_VersionStrictlyIncreases ==
  [][\A p \in Peers : state'[p] # state[p] => state'[p].version > state[p].version]_vars

\* ------------------------------------------------------------ C4
\* C4: every published state carries a version strictly greater than the version
\* of the publisher's local state at the time of the publish.
C4_PublishStampsGreater ==
  \A i \in 1..Len(msgs) : msgs[i].data.version > msgs[i].prev

\* ------------------------------------------------------------ C5
\* C5: two peers whose adopted states carry the same version hold the same state.
C5_SameVersionSameState ==
  \A p, q \in Peers : state[p].version = state[q].version => state[p] = state[q]

\* ------------------------------------------------------------ C6
\* C6: the second of two consecutive deliveries of the same update leaves the
\* local state as the first delivery left it.
C6_Idempotent ==
  rLast.repeat => rLocal = rLast.before

\* the same update was delivered twice in a row and is the adopted state
C6_Witness ==
  /\ rLast.repeat
  /\ rLocal = rLast.incoming
  /\ rLocal.loops # <<>>

\* ------------------------------------------------------------ C7
\* C7: a genesis state is published only while the channel holds no state yet:
\* no message but the channel's first is a genesis.
C7_GenesisOnlyOnce ==
  \A i \in 2..Len(msgs) : msgs[i].op # "bootstrap"

\* ------------------------------------------------------------ C8
\* C8: a step that publishes a genesis state is taken by a peer that heads the
\* queue of its own presence snapshot and has adopted no state from a delivery or
\* from history.
C8_GenesisOnlyByHead ==
  [][\A i \in (Len(msgs) + 1)..Len(msgs') :
       msgs'[i].op = "bootstrap" =>
         LET p == msgs'[i].from
             queue == queueFromPresence(participants'[p])
         IN  /\ queue # <<>>
             /\ queue[1].id = p
             /\ \A j \in 2..Len(queue) : queue[j].id # p
             /\ ~observed[p]]_vars

\* a peer published a genesis state with every peer in its queue
C8_Witness ==
  \E i \in 1..Len(msgs) :
    /\ msgs[i].op = "bootstrap"
    /\ Members(msgs[i].from) = Peers

\* ------------------------------------------------------------ C9
\* C9: two connected peers whose presence snapshots hold the same members compute
\* the same queue.
C9_QueueDeterministic ==
  \A p, q \in Peers :
    (Connected(p) /\ Connected(q) /\ Members(p) = Members(q)) => Queue(p) = Queue(q)

\* ------------------------------------------------------------ C10
\* C10: when every present member's snapshot holds exactly the present members,
\* exactly one of them considers itself leader.
C10_ExactlyOneLeader ==
  (presence # {} /\ \A p \in presence : Members(p) = presence) =>
    Cardinality({p \in presence : IsLeader(p)}) = 1

\* the entries a step appends to the channel
Published == {i \in 1..Len(msgs') : i > Len(msgs)}

\* ------------------------------------------------------------ C11
\* C11: a peer that leads a non-empty queue never holds, for longer than one period
\* of the component's timer, a turn whose endsAt has passed: it has rotated it by
\* then, whether or not any presence or tempo event occurred.
C11_StaleTurnRotatedInTime ==
  \A p \in Mounted :
    (Connected(p) /\ IsLeader(p) /\ state[p].activeTurn # NoTurn) =>
      ~(state[p].activeTurn.endsAt + TURN_POLL_MS < DateNow(p))

\* ------------------------------------------------------------ C12
\* C12: when the leader rotates a turn whose holder is no longer in its queue, the
\* new holder is the member now at the departed holder's last index in the
\* leader's previous queue, modulo the new queue length (the member that followed
\* the holder).
C12_RotationFromLastIndex ==
  [][\A i \in Published :
       LET e == msgs'[i]
           old == QueueIds(Queue(e.from))
           new == QueueIds(queueFromPresence(participants'[e.from]))
           last == IndexOf(old, e.turn.userId)
       IN  (e.op = "arbitration" /\ e.turn # NoTurn /\ Len(new) > 0
              /\ last >= 0 /\ IndexOf(new, e.turn.userId) = -1) =>
             e.data.activeTurn.userId = new[(last % Len(new)) + 1]]_vars

\* ------------------------------------------------------------ C13
\* C13: when the leader rotates a turn whose holder is still in its queue (the turn
\* expired), the new turn goes to the member at (holderIndex + 1) mod queueLength,
\* starts at the leader's Date.now() and ends one composition window later.
C13_RotationOnExpiry ==
  [][\A i \in Published :
       LET e == msgs'[i]
           ids == QueueIds(queueFromPresence(participants'[e.from]))
           holderIndex == IndexOf(ids, e.turn.userId)
           t == DateNow(e.from)
       IN  (e.op = "arbitration" /\ e.turn # NoTurn /\ holderIndex >= 0) =>
             /\ e.turn.endsAt <= t
             /\ e.data.activeTurn =
                  Turn(ids[((holderIndex + 1) % Len(ids)) + 1], t,
                       t + RoundDiv(60 * STEP_COUNT * e.data.windowCycles * 1000,
                                    e.data.bpm))]_vars

\* the leader rotated an expired turn of a holder that is in its queue, away from
\* the head of the queue
C13_Witness ==
  \E i \in 1..Len(msgs) :
    /\ msgs[i].op = "arbitration"
    /\ msgs[i].turn # NoTurn
    /\ msgs[i].turn.endsAt <= msgs[i].data.version
    /\ msgs[i].turn.userId \in Members(msgs[i].from)
    /\ msgs[i].data.activeTurn.userId \notin {msgs[i].turn.userId, msgs[i].from}

\* the commit entries a step appends to the channel
Commits == {i \in Published : msgs'[i].op = "commit"}

\* the loop a commit entry added
Added(e) == e.data.loops[Len(e.data.loops)]

C15_CommitBelowCapacityKeepsAll ==
  [][\A i \in Commits :
       LET e == msgs'[i]
           before == state[e.from].loops
           inst == Added(e).instrument
       IN  Len(LoopsOf(before, inst)) < LoopLimit(inst) =>
             /\ e.data.loops = before \o <<Added(e)>>
             /\ Len(LoopsOf(e.data.loops, inst)) = Len(LoopsOf(before, inst)) + 1]_vars

\* ------------------------------------------------------------ C17
\* C17: no peer's adopted state holds more loops of an instrument than the
\* instrument's limit (4 for drums, 2 for keys and for bass).
C17_LoopsWithinLimit ==
  \A p \in Mounted : \A inst \in Instruments :
    Len(LoopsOf(state[p].loops, inst)) <= LoopLimit(inst)

\* two commits were published and a peer has adopted the state of the second, which
\* holds loops of two instruments
C17_Witness ==
  \E p \in Mounted : \E i, j \in 1..Len(msgs) :
    /\ i < j
    /\ msgs[i].op = "commit"
    /\ msgs[j].op = "commit"
    /\ state[p] = msgs[j].data
    /\ LoopsOf(state[p].loops, "drums") # <<>>
    /\ LoopsOf(state[p].loops, "keys") # <<>>

\* ------------------------------------------------------------ C18
\* C18: in no peer's adopted state do two different committed drum loops have a
\* voice in common.
C18_DrumVoicesExclusive ==
  \A p \in Mounted : \A i, j \in 1..Len(state[p].loops) :
    (i # j /\ state[p].loops[i].instrument = "drums"
           /\ state[p].loops[j].instrument = "drums") =>
      Pitches(state[p].loops[i].notes) \cap Pitches(state[p].loops[j].notes) = {}

\* a drum loop was committed, and the next holder, whose drum draft from an earlier
\* turn uses that loop's voice, has adopted it and has had a drum commit refused
C18_Witness ==
  \E p \in Mounted : \E i \in 1..Len(msgs) :
    /\ msgs[i].op = "commit"
    /\ msgs[i].from # p
    /\ Added(msgs[i]).instrument = "drums"
    /\ state[p] = msgs[i].data
    /\ Pitches(Added(msgs[i]).notes) \cap drums[p] # {}
    /\ lastCommit = [by |-> p, why |-> "conflict"]

C20_WindowExact ==
  /\ wWindow * wState.bpm = 60 * STEP_COUNT * wState.windowCycles * 1000
  /\ (wState.bpm = 120 /\ wState.windowCycles = 4) => wWindow = 32000

\* C20 amended: the composition window is the whole number of milliseconds nearest
\* to (60 / bpm) * STEP_COUNT * windowCycles seconds (at most half a millisecond
\* away), for every bpm in 60..180 and windowCycles in {2, 4, 8}; 32000 ms at 120
\* and 4.
C20_WindowNearestMs ==
  LET exactTimesBpm == 60 * STEP_COUNT * wState.windowCycles * 1000
      diff == wWindow * wState.bpm - exactTimesBpm
  IN  /\ wState.bpm \in MIN_BPM..MAX_BPM
      /\ wState.windowCycles \in {2, 4, 8}
      /\ 2 * diff <= wState.bpm
      /\ 2 * diff >= 0 - wState.bpm
      /\ (wState.bpm = 120 /\ wState.windowCycles = 4) => wWindow = 32000

\* a tempo and window for which the seconds are no whole number of milliseconds and
\* the nearest one is above
C20_Witness ==
  /\ wState.bpm = 70
  /\ wState.windowCycles = 2
  /\ wWindow = 27429

\* ------------------------------------------------------------ C28
\* C28: every timeout rotation, departed-holder rotation and NoTurn -> TurnActive
\* transition is published by a peer that is at position 0 of its own queue; a peer
\* that is not the head of its own queue publishes none of them.
C28_ArbitrationOnlyByHead ==
  [][\A i \in Published :
       LET e == msgs'[i]
           queue == queueFromPresence(participants'[e.from])
       IN  e.op = "arbitration" => (Len(queue) > 0 /\ queue[1].id = e.from)]_vars

\* an arbitration transition is on the channel while another connected peer, not
\* the head of its own queue, holds a turn that is expired or whose holder is gone
\* from its queue, and has published no transition
C28_Witness ==
  \E i \in 1..Len(msgs) : \E q \in Mounted :
    /\ msgs[i].op = "arbitration"
    /\ msgs[i].from # q
    /\ Connected(q)
    /\ Len(Queue(q)) > 0
    /\ ~IsLeader(q)
    /\ state[q].activeTurn # NoTurn
    /\ (state[q].activeTurn.userId \notin Members(q)
          \/ state[q].activeTurn.endsAt <= DateNow(q))
    /\ \A j \in 1..Len(msgs) : msgs[j].from = q => msgs[j].op # "arbitration"

\* ------------------------------------------------------------ C29
\* C29: a pass by the turn holder publishes a state whose turn is held by the member
\* of the holder's queue at (holderIndex + 1) mod queueLength, starts at the
\* holder's Date.now() and ends one composition window later; loops, bpm,
\* windowCycles, creatorId and playbackStartedAt are those of the state the holder
\* had.
C29_PassFrame ==
  [][\A i \in Published :
       LET e == msgs'[i]
           s == state[e.from]
           ids == QueueIds(Queue(e.from))
           holderIndex == IndexOf(ids, e.from)
           t == DateNow(e.from)
       IN  e.op = "pass" =>
             /\ s.activeTurn # NoTurn
             /\ s.activeTurn.userId = e.from
             /\ e.data.activeTurn.userId = ids[((holderIndex + 1) % Len(ids)) + 1]
             /\ e.data.activeTurn.startedAt = t
             /\ e.data.activeTurn.endsAt =
                  t + RoundDiv(60 * STEP_COUNT * s.windowCycles * 1000, s.bpm)
             /\ e.data.loops = s.loops
             /\ e.data.bpm = s.bpm
             /\ e.data.windowCycles = s.windowCycles
             /\ e.data.creatorId = s.creatorId
             /\ e.data.playbackStartedAt = s.playbackStartedAt]_vars

\* a holder in the middle of a queue of three passed: the turn went to the member
\* after it, not to the head, and started later than the turn it replaced
C29_Witness ==
  \E i \in 1..Len(msgs) :
    /\ msgs[i].op = "pass"
    /\ msgs[i].turn.userId = msgs[i].from
    /\ msgs[i].data.activeTurn.userId \notin {msgs[i].from, TurnPeers[1]}
    /\ msgs[i].data.activeTurn.startedAt > msgs[i].turn.startedAt
    /\ msgs[i].data.bpm # DefaultBpm

\* ------------------------------------------------------------ C26
\* C26: no state on the channel and no peer's adopted state holds more than 2
\* committed loops of one instrument, for each of drums, keys and bass.
C26_AtMostTwoPerInstrument ==
  /\ \A i \in 1..Len(msgs) : \A inst \in Instruments :
       Len(LoopsOf(msgs[i].data.loops, inst)) <= README_LOOP_LIMIT
  /\ \A p \in Mounted : \A inst \in Instruments :
       Len(LoopsOf(state[p].loops, inst)) <= README_LOOP_LIMIT

\* two loops of one instrument were committed, one after the other, onto a session
\* that already held a loop of that instrument, and a peer other than the second
\* committer has adopted the outcome
C26_Witness ==
  \E p \in Mounted : \E i, j \in 1..Len(msgs) :
    /\ i < j
    /\ msgs[i].op = "commit"
    /\ msgs[j].op = "commit"
    /\ msgs[i].data.loops[Len(msgs[i].data.loops)].instrument = "keys"
    /\ msgs[j].data.loops[Len(msgs[j].data.loops)].instrument = "keys"
    /\ p # msgs[j].from
    /\ state[p] = msgs[j].data

\* the length of a turn, and the composition window of the state that carries it
TurnLength(s) == s.activeTurn.endsAt - s.activeTurn.startedAt

WindowOf(s) == RoundDiv(60 * STEP_COUNT * s.windowCycles * 1000, s.bpm)

\* ------------------------------------------------------------ C21
\* C21 as stated: in every state on the channel and every adopted state with an
\* active turn, endsAt - startedAt equals the composition window of that state's bpm
\* and windowCycles, also in the states a BPM or window-cycle change produced.
C21_TurnLengthIsWindow ==
  /\ \A i \in 1..Len(msgs) :
       msgs[i].data.activeTurn # NoTurn => TurnLength(msgs[i].data) = WindowOf(msgs[i].data)
  /\ \A p \in Mounted :
       state[p].activeTurn # NoTurn => TurnLength(state[p]) = WindowOf(state[p])

\* C21 amended: in every state on the channel and every adopted state with an active
\* turn, endsAt - startedAt is at least the composition window of that state's bpm
\* and windowCycles. It equals the window in the states that start a turn (pass,
\* arbitration) and in the states of a BPM or window-cycle change that leaves 1500 ms
\* or more of the new window; a change that leaves less publishes a longer turn,
\* ending 1500 ms after the change.
C21_TurnLengthAtLeastWindow ==
  /\ \A i \in 1..Len(msgs) :
       LET e == msgs[i]
           s == e.data
       IN  s.activeTurn # NoTurn =>
             IF e.op \in {"bpm", "cycles"}
             THEN \/ TurnLength(s) = WindowOf(s)
                  \/ /\ TurnLength(s) > WindowOf(s)
                     /\ s.activeTurn.endsAt = s.version + EXTEND_MS
             ELSE TurnLength(s) = WindowOf(s)
  /\ \A p \in Mounted :
       state[p].activeTurn # NoTurn => TurnLength(state[p]) >= WindowOf(state[p])

\* a change late in the turn is on the channel with a turn longer than its window,
\* a peer other than the publisher has adopted it, and an earlier change that
\* altered the window kept the turn as long as the new window
C21_Witness ==
  \E p \in Mounted : \E i, j \in 1..Len(msgs) :
    /\ i < j
    /\ msgs[i].op \in {"bpm", "cycles"}
    /\ WindowOf(msgs[i].data) # CompositionWindowMs(InitialSessionState)
    /\ TurnLength(msgs[i].data) = WindowOf(msgs[i].data)
    /\ msgs[j].op \in {"bpm", "cycles"}
    /\ TurnLength(msgs[j].data) > WindowOf(msgs[j].data)
    /\ p # msgs[j].from
    /\ state[p] = msgs[j].data

\* ------------------------------------------------------------ C22
\* C22: every call of bpmInput publishes a state (it is never rejected) whose bpm is
\* in [60, 180]: 60 for an input below 60, 180 for an input above 180, the input
\* itself otherwise.
C22_BpmClamped ==
  [][\A p \in Mounted : \A value \in TempoBpms :
       BpmInput(p, value) =>
         \E i \in Published :
           /\ msgs'[i].from = p
           /\ msgs'[i].op = "bpm"
           /\ msgs'[i].data.bpm \in 60..180
           /\ msgs'[i].data.bpm =
                IF value < 60 THEN 60 ELSE IF value > 180 THEN 180 ELSE value
           /\ state'[p].bpm = msgs'[i].data.bpm]_vars

\* a tempo below the range and a tempo above it were typed: 60 and 180 are on the
\* channel
C22_Witness ==
  \E i, j \in 1..Len(msgs) :
    /\ msgs[i].op = "bpm"
    /\ msgs[i].data.bpm = 60
    /\ msgs[j].op = "bpm"
    /\ msgs[j].data.bpm = 180

\* ------------------------------------------------------------ C23
\* the members of {2, 4, 8} nearest to a value
NearestValid(value) ==
  LET Dist(c) == IF c >= value THEN c - value ELSE value - c
  IN  {c \in {2, 4, 8} : \A d \in {2, 4, 8} : Dist(c) <= Dist(d)}

C30_ChangeExtendsTurn ==
  [][\A i \in Published :
       LET e == msgs'[i]
           t == DateNow(e.from)
           byWindow == e.turn.startedAt + WindowOf(e.data)
           next == e.data.activeTurn
       IN  (e.op \in {"bpm", "cycles"} /\ e.turn # NoTurn) =>
             /\ next # NoTurn
             /\ next.userId = e.turn.userId
             /\ next.startedAt = e.turn.startedAt
             /\ next.endsAt = IF byWindow >= t + 1500 THEN byWindow ELSE t + 1500
             /\ next.endsAt >= t + 1500]_vars

\* a tempo change early in the turn ended it one new window after its start, and a
\* window-cycle change late in the same turn ended it 1500 ms after the change
C30_Witness ==
  \E i, j \in 1..Len(msgs) :
    /\ msgs[i].op = "bpm"
    /\ msgs[i].data.activeTurn.endsAt =
         msgs[i].data.activeTurn.startedAt + WindowOf(msgs[i].data)
    /\ msgs[i].data.activeTurn.endsAt > msgs[i].data.version + 1500
    /\ msgs[j].op = "cycles"
    /\ msgs[j].data.activeTurn.startedAt = msgs[i].data.activeTurn.startedAt
    /\ msgs[j].data.activeTurn.endsAt = msgs[j].data.version + 1500
    /\ msgs[j].data.activeTurn.endsAt >
         msgs[j].data.activeTurn.startedAt + WindowOf(msgs[j].data)

\* ------------------------------------------------------------ C24
\* the entries whose publish a step saw rejected
Rejected == {i \in 1..Len(dropped') : i > Len(dropped)}

\* C24: when the relay rejects a publish, the publisher's adopted state after the
\* call is the state it tried to publish, not the one it had before; nothing reaches
\* the channel, and the publisher stays connected with its queue and its loaded
\* flag as they were, so its later operations run as usual.
C24_FailedPublishKeepsLocal ==
  [][\A i \in Rejected :
       LET e == dropped'[i]
       IN  /\ msgs' = msgs
           /\ e.data # state[e.from]
           /\ i = Len(dropped') => state'[e.from] = e.data
           /\ pc'[e.from] = pc[e.from]
           /\ participants'[e.from] = participants[e.from]
           /\ stateLoaded'[e.from] = stateLoaded[e.from]]_vars

\* a publish was rejected and the same peer later published a state built on the
\* one that was rejected, which the other peer adopted
C24_Witness ==
  \E i \in 1..Len(dropped) : \E j \in 1..Len(msgs) : \E q \in Mounted :
    /\ msgs[j].from = dropped[i].from
    /\ msgs[j].prev = dropped[i].data.version
    /\ msgs[j].turn = dropped[i].data.activeTurn
    /\ q # msgs[j].from
    /\ state[q] = msgs[j].data

\* ------------------------------------------------------------ C25
\* C25: once the cleanup of a peer's setup effect has run, the peer handles no
\* further state message (its session state stays as it was), handles no further
\* presence message (its participants stay as they were) and does not enter
\* presence, whichever step of setup was pending when the cleanup ran.
C25_NothingHandledAfterLeave ==
  [][\A p \in Mounted :
       pc[p] \in LeftStages =>
         /\ state'[p] = state[p]
         /\ participants'[p] = participants[p]
         /\ p \notin presence']_vars

\* ------------------------------------------------------------ C27
\* C27: a peer that leads a non-empty queue does not stay on a state without an
\* active turn: when it has observed one it has published, and adopted, a state
\* whose turn is held by the first member of its queue.
C27_LeaderStartsTurn ==
  \A p \in Mounted :
    (Connected(p) /\ IsLeader(p)) =>
      /\ state[p].activeTurn # NoTurn
      /\ state[p].activeTurn.userId \in Members(p)

\* ------------------------------------------------------------ queue churn
\* three peers in a running session, the second and the third entered in the same
\* millisecond; every peer holds a presence snapshot listed in some order
InitQueue ==
  /\ now = Len(TurnPeers) + 1
  /\ ticks = 0
  /\ pc = [p \in TurnPeerSet |-> "ready"]
  /\ skew = [p \in TurnPeerSet |-> 0]
  /\ joinedAt = [p \in TurnPeerSet |-> IF p = TurnPeers[1] THEN 1 ELSE 2]
  /\ presence = TurnPeerSet
  /\ presencePending = [p \in TurnPeerSet |-> FALSE]
  /\ participants \in [TurnPeerSet ->
       {queueFromPresence(Mapped(order)) : order \in Orders(TurnPeerSet)}]
  /\ \E h \in TurnPeerSet : state = [p \in TurnPeerSet |-> TurnState(h, now)]
  /\ stateLoaded = [p \in TurnPeerSet |-> TRUE]
  /\ observed = [p \in TurnPeerSet |-> TRUE]
  /\ msgs = <<>>
  /\ dropped = <<>>
  /\ relayUp = TRUE
  /\ transport = TransportIdle
  /\ isMyTurn = Rendered
  /\ subFrom = [p \in TurnPeerSet |-> 0]
  /\ publishLimit = MaxTurnPublish
  /\ ApplyIdle
  /\ DraftIdle
  /\ WindowIdle

NextQueue ==
  \/ \E p \in Mounted : Leave(p)
  \/ \E p \in Mounted : PresenceResolve(p)
  \/ \E p \in Mounted : \E i \in 1..Len(msgs) : Deliver(p, i)

SpecQueue == InitQueue /\ [][NextQueue]_vars

\* ------------------------------------------------------------ C31
\* a comes before b in the queue computed from the snapshot `parts`
Before(parts, a, b) ==
  IndexOf(QueueIds(queueFromPresence(parts)), a) < IndexOf(QueueIds(queueFromPresence(parts)), b)

\* C31: when a peer recomputes its queue after a participant was removed, any two
\* participants that remain keep the relative order they had in the queue before,
\* also when their joinedAt values are equal.
C31_RemovalKeepsOrder ==
  [][\A p \in Mounted :
       (participants'[p] # participants[p] /\ Members(p)' \subseteq Members(p)) =>
         \A a, b \in Members(p)' :
           Before(participants[p], a, b) <=> Before(participants'[p], a, b)]_vars

\* ------------------------------------------------------------ scale changes
\* SpecScale: two peers in a running session; the holder of the turn draws keys
\* notes, the peers pick roots, the holder commits.

\* the roots the behaviours pick in the root select
ScaleRoots == {"C", "D"}

\* the rows of the piano roll the behaviours edit: the lowest of the shown scale
MaxPianoRows == 2

\* the rows of the piano roll a peer sees (currentScale.notes), lowest first
PianoRows(p) ==
  LET notes == IF draftInstrument[p] = "keys" THEN keysScale(p) ELSE bassScale(p)
  IN  {notes[i] : i \in 1..(IF Len(notes) < MaxPianoRows THEN Len(notes) ELSE MaxPianoRows)}

\* the root select: setRootNote(e.target.value)
SetRootNote(p, root) ==
  /\ Connected(p)
  /\ rootNote[p] # root
  /\ rootNote' = [rootNote EXCEPT ![p] = root]
  /\ UNCHANGED <<sessionVars, applyVars, windowVars, draftInstrument, drums, pianoDrafts,
                 lastCommit>>

\* the session of SpecTempo; the holder of the turn has selected the keys
InitScale ==
  /\ now = Cardinality(Peers) + 1
  /\ ticks = 0
  /\ pc = [p \in Peers |-> "ready"]
  /\ skew = [p \in Peers |-> 0]
  /\ joinedAt = [p \in Peers |-> IndexOf(TurnPeers, p) + 1]
  /\ presence = Peers
  /\ presencePending = [p \in Peers |-> FALSE]
  /\ participants = [p \in Peers |-> Mapped(SubSeq(TurnPeers, 1, Cardinality(Peers)))]
  /\ \E h \in Peers :
       /\ state = [p \in Peers |-> TurnState(h, now - 1)]
       /\ draftInstrument = [p \in Peers |-> IF p = h THEN "keys" ELSE "drums"]
  /\ stateLoaded = [p \in Peers |-> TRUE]
  /\ observed = [p \in Peers |-> TRUE]
  /\ msgs = <<>>
  /\ dropped = <<>>
  /\ relayUp = TRUE
  /\ transport = TransportIdle
  /\ isMyTurn = Rendered
  /\ subFrom = [p \in Peers |-> 0]
  /\ publishLimit = MaxPublish
  /\ ApplyIdle
  /\ drums = [p \in Peers |-> {}]
  /\ pianoDrafts = [p \in Peers |-> [keys |-> {}, bass |-> {}]]
  /\ lastCommit = NoCommit
  /\ rootNote = [p \in Peers |-> "C"]
  /\ WindowIdle

NextScale ==
  \/ \E p \in Mounted : \E root \in ScaleRoots : SetRootNote(p, root)
  \/ \E p \in Mounted : \E pitch \in PianoRows(p) : \E value \in BOOLEAN :
       PianoSet(p, pitch, value)
  \/ \E p \in Mounted : CommitDraft(p)
  \/ \E p \in Mounted : \E i \in 1..Len(msgs) : Deliver(p, i)

SpecScale == InitScale /\ [][NextScale]_vars

\* ------------------------------------------------------------ C32
\* C32: when the holder of the turn commits a non-empty keys or bass draft, the
\* commit is not rejected and the committed loop has one note per draft note: a
\* draft note whose pitch is in the scale selected at commit time is committed as
\* drawn, any other with the first note of that scale as its pitch and its id,
\* step, duration and velocity as drawn; so every pitch of the loop is in the scale.
C32_CommittedPitchesInScale ==
  [][\A p \in Mounted :
       (/\ CommitDraft(p)
        /\ IsMyTurn(p)
        /\ draftInstrument[p] # "drums"
        /\ pianoDrafts[p][draftInstrument[p]] # {}) =>
         LET scaleNotes == IF draftInstrument[p] = "keys" THEN keysScale(p) ELSE bassScale(p)
             inScale == {scaleNotes[k] : k \in 1..Len(scaleNotes)}
             draft == pianoDrafts[p][draftInstrument[p]]
         IN  /\ lastCommit' = CommitRecord(p, "none")
             /\ Len(msgs') + Len(dropped') = Len(msgs) + Len(dropped) + 1
             /\ Len(msgs') > Len(msgs)
             /\ LET loop == Added(msgs'[Len(msgs')])
                IN  /\ loop.instrument = draftInstrument[p]
                    /\ Len(loop.notes) = Cardinality(draft)
                    /\ \A i \in 1..Len(loop.notes) : loop.notes[i].pitch \in inScale
                    /\ \A x \in draft : \E i \in 1..Len(loop.notes) :
                         loop.notes[i] =
                           [id |-> <<x, 0>>,
                            pitch |-> IF x \in inScale THEN x ELSE scaleNotes[1],
                            step |-> 0, duration |-> 1, velocity |-> 85]]_vars

\* a committed keys loop with a note that was drawn on a pitch outside the scale of
\* the commit and a note that was drawn inside it
C32_Witness ==
  \E i \in 1..Len(msgs) :
    /\ msgs[i].op = "commit"
    /\ Added(msgs[i]).instrument = "keys"
    /\ \E a, b \in 1..Len(Added(msgs[i]).notes) :
         /\ Added(msgs[i]).notes[a].id[1] # Added(msgs[i]).notes[a].pitch
         /\ Added(msgs[i]).notes[b].id[1] = Added(msgs[i]).notes[b].pitch

\* ------------------------------------------------------------ transport sync
\* SpecSync: two peers in a running session whose clocks may differ; the creator
\* toggles playback, time passes, the peers receive and synchronise their transports.

\* a % b of JavaScript for b > 0: the remainder has the sign of the dividend
JsRemainder(a, b) == IF a >= 0 THEN a % b ELSE 0 - ((0 - a) % b)

\* getLoopDuration(bpm) = (60 / bpm) * STEP_COUNT seconds, times 1000 * bpm
LoopDurationScaled == 60 * STEP_COUNT * 1000

\* syncTransportToSession: positionInLoop = (elapsedMs / 1000) % getLoopDuration(bpm),
\* as the fraction num / den of a second. Both operands of % are multiplied by
\* 1000 * bpm, which the remainder follows.
PositionInLoop(elapsedMs, bpm) ==
  [num |-> JsRemainder(elapsedMs * bpm, LoopDurationScaled), den |-> 1000 * bpm]

\* syncTransportToSession(), called by the effects on audioReady, bpm and
\* playbackStartedAt and by the re-sync interval. Tone.Transport.pause() leaves the
\* position and transportStarted.current as they are.
syncTransportToSession(p) ==
  /\ Connected(p)
  /\ IF state[p].playbackStartedAt = NullTime
     THEN UNCHANGED transport
     ELSE LET position == PositionInLoop(DateNow(p) - state[p].playbackStartedAt, state[p].bpm)
          IN  transport' = [transport EXCEPT
                ![p] = [started |-> TRUE, num |-> position.num, den |-> position.den]]
  /\ UNCHANGED <<now, ticks, skew, pc, joinedAt, presence, presencePending, participants,
                 state, stateLoaded, observed, msgs, dropped, subFrom, publishLimit,
                 relayUp, isMyTurn, applyVars, draftVars, windowVars>>

\* the time the behaviours let pass in one step: eleven loops of the default tempo
\* and a quarter
SyncWaitMs == 90000

\* SyncWaitMs pass without any event
Wait ==
  /\ ticks < MaxElapse
  /\ ticks' = ticks + 1
  /\ now' = now + SyncWaitMs
  /\ UNCHANGED <<skew, pc, joinedAt, presence, presencePending, participants, state,
                 stateLoaded, observed, msgs, dropped, subFrom, otherVars>>

\* the session of SpecTempo with any clocks: the creator has just restarted the
\* playback, and both peers have adopted the state it published
InitSync ==
  /\ now = Cardinality(Peers) + 1
  /\ ticks = 0
  /\ pc = [p \in Peers |-> "ready"]
  /\ skew \in [Peers -> ClockSkews]
  /\ joinedAt = [p \in Peers |-> IndexOf(TurnPeers, p) + 1]
  /\ presence = Peers
  /\ presencePending = [p \in Peers |-> FALSE]
  /\ participants = [p \in Peers |-> Mapped(SubSeq(TurnPeers, 1, Cardinality(Peers)))]
  /\ \E h \in Peers :
       state = [p \in Peers |->
         [TurnState(h, now - 1) EXCEPT !.playbackStartedAt = now + skew[TurnPeers[1]],
                                       !.version = now + skew[TurnPeers[1]]]]
  /\ stateLoaded = [p \in Peers |-> TRUE]
  /\ observed = [p \in Peers |-> TRUE]
  /\ msgs = <<>>
  /\ dropped = <<>>
  /\ relayUp = TRUE
  /\ transport = TransportIdle
  /\ isMyTurn = Rendered
  /\ subFrom = [p \in Peers |-> 0]
  /\ publishLimit = MaxPublish
  /\ ApplyIdle
  /\ DraftIdle
  /\ WindowIdle

NextSync ==
  \/ \E p \in Mounted : ToggleSessionPlayback(p)
  \/ \E p \in Mounted : \E i \in 1..Len(msgs) : Deliver(p, i)
  \/ \E p \in Mounted : syncTransportToSession(p)
  \/ Wait

SpecSync == InitSync /\ [][NextSync]_vars

\* ------------------------------------------------------------ C33
\* C33: when the peer's state has a playbackStartedAt, the synchroniser sets the
\* transport position to ((now - playbackStartedAt) / 1000) mod ((60 / bpm) * 16)
\* seconds, now being the peer's clock; so 90000 ms at 120 BPM give 2 s. (With
\* both operands multiplied by 1000 * bpm: num = (elapsedMs * bpm) mod 960000 over
\* den = 1000 * bpm.)
C33_PositionIsElapsedModLoop ==
  [][\A p \in Mounted :
       (syncTransportToSession(p) /\ state[p].playbackStartedAt # NullTime) =>
         LET elapsedMs == DateNow(p) - state[p].playbackStartedAt
         IN  /\ transport'[p].den = 1000 * state[p].bpm
             /\ transport'[p].num =
                  (elapsedMs * state[p].bpm) % (60 * STEP_COUNT * 1000)
             /\ (elapsedMs = 90000 /\ state[p].bpm = 120) =>
                  transport'[p].num = 2 * transport'[p].den]_vars

\* ------------------------------------------------------------ C34
\* C34: after the synchroniser ran on a state with a playbackStartedAt, the
\* transport position is at least 0 and less than the loop duration (60 / bpm) * 16
\* seconds, also when the peer's clock is behind playbackStartedAt.
C34_PositionWithinLoop ==
  [][\A p \in Mounted :
       (syncTransportToSession(p) /\ state[p].playbackStartedAt # NullTime) =>
         /\ 0 <= transport'[p].num
         /\ transport'[p].num * state[p].bpm < 60 * STEP_COUNT * transport'[p].den]_vars

\* ------------------------------------------------------------ rotation order
\* SpecCycle: the session of SpecTurn with its queue fixed (nobody enters or leaves):
\* passes, tempo changes, long waits and deliveries; turns end by a pass or by the
\* leader arbitration effect. The leader's clock may be ahead of the others'.

\* the publishes of a behaviour of SpecCycle
MaxCyclePublish == 4

InitCycle ==
  /\ now = Len(TurnPeers) + 1
  /\ ticks = 0
  /\ pc = [p \in TurnPeerSet |-> "ready"]
  /\ \E ahead \in ClockSkews :
       skew = [p \in TurnPeerSet |-> IF p = TurnPeers[1] THEN ahead ELSE 0]
  /\ joinedAt = [p \in TurnPeerSet |-> IndexOf(TurnPeers, p) + 1]
  /\ presence = TurnPeerSet
  /\ presencePending = [p \in TurnPeerSet |-> FALSE]
  /\ participants = [p \in TurnPeerSet |-> Mapped(TurnPeers)]
  /\ \E h \in TurnPeerSet : state = [p \in TurnPeerSet |-> TurnState(h, now)]
  /\ stateLoaded = [p \in TurnPeerSet |-> TRUE]
  /\ observed = [p \in TurnPeerSet |-> TRUE]
  /\ msgs = <<>>
  /\ dropped = <<>>
  /\ relayUp = TRUE
  /\ transport = TransportIdle
  /\ isMyTurn = Rendered
  /\ subFrom = [p \in TurnPeerSet |-> 0]
  /\ publishLimit = MaxCyclePublish
  /\ ApplyIdle
  /\ DraftIdle
  /\ WindowIdle

NextCycle ==
  \/ \E p \in Mounted : RotateTurn(p)
  \/ \E p \in Mounted : \E value \in BpmValues : BpmInput(p, value)
  \/ \E p \in Mounted : \E i \in 1..Len(msgs) : Deliver(p, i)
  \/ Elapse

SpecCycle == InitCycle /\ [][NextCycle]_vars

\* ------------------------------------------------------------ C35
\* message i of the channel ends a turn: a pass, or a rotation by the leader
\* arbitration effect
IsRotation(i) ==
  /\ msgs[i].op \in {"pass", "arbitration"}
  /\ msgs[i].data.activeTurn # msgs[i].turn

\* the participant after id in the queue of the session, the first after the last
NextInQueue(id) == TurnPeers[((IndexOf(TurnPeers, id) + 1) % Len(TurnPeers)) + 1]

\* C35: with the queue fixed, the rotations of a session, in the order they were
\* published, give the turn to the participants in queue order: each rotation's
\* holder is the participant after the holder of the rotation before it, so every
\* participant gets the turn exactly once in any Len(queue) consecutive rotations.
C35_RotationsInQueueOrder ==
  \A i, j \in 1..Len(msgs) :
    (/\ i < j
     /\ IsRotation(i)
     /\ IsRotation(j)
     /\ \A k \in (i + 1)..(j - 1) : ~IsRotation(k)) =>
      msgs[j].data.activeTurn.userId = NextInQueue(msgs[i].data.activeTurn.userId)

\* ------------------------------------------------------------ loops kept
\* SpecKeep: the session of SpecTempo; the holder of the turn draws and commits a
\* drum loop while the peers pass, toggle the playback and change tempo and window;
\* a millisecond passes, or more than a window.
InitKeep == InitTempo

NextKeep ==
  \/ \E p \in Mounted : \E row \in DrumRows : \E value \in BOOLEAN : DrumSet(p, row, value)
  \/ \E p \in Mounted : CommitDraft(p)
  \/ \E p \in Mounted : RotateTurn(p)
  \/ \E p \in Mounted : ToggleSessionPlayback(p)
  \/ \E p \in Mounted : \E value \in BpmValues : BpmInput(p, value)
  \/ \E p \in Mounted : \E value \in CycleValues : CycleInput(p, value)
  \/ \E p \in Mounted : \E i \in 1..Len(msgs) : Deliver(p, i)
  \/ Tick
  \/ Elapse

SpecKeep == InitKeep /\ [][NextKeep]_vars

\* ------------------------------------------------------------ C36
\* the loops of a list
LoopSet(loops) == {loops[k] : k \in 1..Len(loops)}

\* a commit of the loop's instrument is on the channel whose list lacks the loop
ReplacedByCommit(loop, channel) ==
  \E i \in 1..Len(channel) :
    /\ channel[i].op = "commit"
    /\ Added(channel[i]).instrument = loop.instrument
    /\ loop \notin LoopSet(channel[i].data.loops)

\* C36: a loop of a peer's adopted state leaves that state only when a commit has
\* replaced it: no state published by a rotation, a pass, a tempo or window change
\* or a playback toggle, however its delivery interleaves with the commit's, makes
\* a peer adopt a state that lacks the loop.
C36_LoopLeavesOnlyByCommit ==
  [][\A q \in Mounted :
       \A loop \in LoopSet(state[q].loops) :
         loop \in LoopSet(state'[q].loops) \/ ReplacedByCommit(loop, msgs')]_vars

\* ------------------------------------------------------------ the Pass button
\* SpecPass: the session of SpecTurn with the renders of the peers as steps. The
\* "state" handler sets sessionStateRef.current at once (line 521) and the
\* component renders the new sessionState later; the Pass button is enabled by the
\* isMyTurn of the last render (line 1677), and rotateTurn reads the ref.

\* the component renders the state the handlers left
Render(p) ==
  /\ Connected(p)
  /\ isMyTurn[p] # Rendered[p]
  /\ isMyTurn' = [isMyTurn EXCEPT ![p] = Rendered[p]]
  /\ UNCHANGED <<now, ticks, skew, pc, joinedAt, presence, presencePending, participants,
                 state, stateLoaded, observed, msgs, dropped, subFrom, publishLimit,
                 relayUp, transport, applyVars, draftVars, windowVars>>

\* a click on the Pass button of the last render: rotateTurn(), then the render of
\* the state it set
PassClick(p) ==
  /\ Connected(p)
  /\ ClickAfterOwnPublishes(p)
  /\ isMyTurn[p]
  /\ Len(Queue(p)) > 0
  /\ LET ids == QueueIds(Queue(p))
         currentId == state[p].activeTurn.userId
         currentIdx == IF currentId # NoId THEN IndexOf(ids, currentId) ELSE -1
         nextId == ids[((currentIdx + 1) % Len(ids)) + 1]
         t == DateNow(p)
     IN  /\ PublishAs(p, state[p], <<Entry(p, "pass", state[p],
              [state[p] EXCEPT
                 !.activeTurn = Turn(nextId, t, t + CompositionWindowMs(state[p])),
                 !.version = t])>>)
         /\ isMyTurn' = [isMyTurn EXCEPT ![p] = (nextId = p)]
  /\ UNCHANGED <<now, ticks, skew, pc, joinedAt, presence, presencePending, participants,
                 stateLoaded, observed, subFrom, publishLimit, relayUp, transport,
                 applyVars, draftVars, windowVars>>

InitPass == InitTurn

NextPass ==
  \/ \E p \in Mounted : Leave(p)
  \/ \E p \in Mounted : PresenceResolve(p)
  \/ \E p \in Mounted : \E i \in 1..Len(msgs) : Deliver(p, i)
  \/ \E p \in Mounted : Render(p)
  \/ \E p \in Mounted : PassClick(p)
  \/ Elapse

SpecPass == InitPass /\ [][NextPass]_vars

\* ------------------------------------------------------------ C38
\* C38: a pass requested by a peer that does not hold the turn (in the state its ref
\* holds when rotateTurn runs) changes no peer's session state and publishes nothing.
C38_PassByNonHolderIgnored ==
  [][\A p \in Mounted :
       (PassClick(p) /\ ~IsMyTurn(p)) =>
         /\ state' = state
         /\ msgs' = msgs
         /\ dropped' = dropped]_vars

\* ------------------------------------------------------------ C39
\* C39: a commit is accepted (published) only while the committer's clock is before
\* the endsAt of the turn it holds; none is accepted once endsAt has elapsed.
C39_NoCommitAfterTurnEnd ==
  [][\A p \in Mounted :
       (CommitDraft(p) /\ lastCommit' = CommitRecord(p, "none")) =>
         DateNow(p) < state[p].activeTurn.endsAt]_vars

\* ------------------------------------------------------------ C40
\* C40: once the state a peer has adopted names a creator, every state the peer
\* adopts afterwards names the same creator.
C40_CreatorNeverChanges ==
  [][\A p \in Mounted :
       state[p].creatorId # NoId => state'[p].creatorId = state[p].creatorId]_vars

====
